---- MODULE Spec2Model ----
(***************************************************************************)
(* Verification model of mmanana/depertec (src/graphanalysis.py).          *)
(*                                                                         *)
(* Three specifications share the variables of this module:                *)
(*   SpecMain  - main() and create_graph_dataframes(): the data-quality    *)
(*               level, the abort policy and the exits of main.            *)
(*   SpecGraph - genera_grafo(): spans, reachability passes and the        *)
(*               cycle elimination loop on a multigraph.                   *)
(*   SpecLoad  - add_cch_grafo() + resuelve_grafo() on tree-shaped         *)
(*               graphs with customers attached.                           *)
(* Each specification keeps the variables of the other two at rest.        *)
(***************************************************************************)
EXTENDS Integers, Sequences, FiniteSets, TLC

(***************************************************************************)
(* Bounds of the model.                                                    *)
(***************************************************************************)
\* span rows of the substation read from the span CSV
MaxTrazas == 5
\* largest coordinate value of a span end (0 stands for missing / unparsable)
MaxCoord == 2
\* rows of the node table / of the customer table
MaxNodosTabla == 1
MaxCupsTabla == 2
\* physical nodes of the feeder and span rows added to the graph
MaxNodos == 3
MaxEnlaces == 4
\* nodes of the node table that no span mentions
MaxSueltos == 1
\* customers of the tree and parallel spans of its first link
MaxCups == 2
MaxParalelos == 2
\* rows of df_Nodos_Trazas and transformers of the substation
MaxFilasNodos == 2
MaxTrafos == 2
\* rows of one customer in a load table of one day
MaxFilasCups == 2
\* days of the date range, hours of a day (diccionario_horas), result nodes
MaxDias == 2
MaxHoras == 3
MaxNodosResultado == 2

(***************************************************************************)
(* Program constants.                                                      *)
(***************************************************************************)
\* percentage of spans without length above which the graph is given up
UmbralTrazasCero == 20

VARIABLES
    \* ---- main / create_graph_dataframes --------------------------------
    pc,                 \* position of main
    graph_data_error,   \* data-quality level (shared with genera_grafo)
    use_gml_file,       \* 0: try to read the stored .gml, 1: build the graph
    filas_leidas,       \* span rows iterated so far (loop of line 361)
    n_trazas,           \* len(df_traza_ct) after dropping rows (line 650)
    trazas_cero,        \* counter of line 359
    long_cero,          \* kept rows whose column Longitud is 0
    sin_coord,          \* kept rows with a non-positive end coordinate
    cups_leidos,        \* rows of the customer table, -1 before it is read
    df_nodos_ct,        \* lengths of the tables as returned to main
    df_traza_ct,
    df_ct_cups_ct,
    df_matr_dist,
    cups_agregado_CT,
    abortado_trazas,    \* return of line 775 taken
    grafo_generado,     \* genera_grafo has been called
    gml_escrito,        \* nx.write_gml has been called
    listas_calculadas,  \* lines 2786-2883 executed
    salida,             \* which return ended main
    n_update_error,     \* calls of update_graph_data_error
    nivel_registrado,   \* level of the last call, -1 before the first
    \* ---- genera_grafo --------------------------------------------------
    gpc,                \* position of genera_grafo
    G_nodos,            \* nodes of G in insertion order
    G_enlaces,          \* number of parallel edges between two nodes
    N_ant,              \* attribute N_ant of the physical nodes
    Enlaces_orig,       \* attribute Enlaces_orig (= Enlaces_iter) of nodes
    filas_grafo,        \* span rows added to G so far
    cont_enlaces_nuevos,
    contr_lazos,
    iter_lazos,
    bucle_found,
    G_antes,            \* edges of G when the cycle elimination starts
    nivel_antes,        \* level when the cycle elimination starts
    \* ---- add_cch_grafo / resuelve_grafo --------------------------------
    lpc,                \* position of the hourly computation
    arbol,              \* the tree-shaped graph with its customers
    df_AE_fecha,        \* imported energy of every customer for the hour
    df_AS_fecha,        \* exported energy of every customer for the hour
    filas_AE,           \* rows of every customer in df_AE_fecha
    filas_AS,           \* rows of every customer in df_AS_fecha
    P_0,                \* attribute P_<phase>_0 of the nodes
    P_cups,             \* attribute P_<phase>_0 of the customer nodes
    P_Linea,            \* attribute P_<phase>_Linea of the edges of a link
    Enlaces_iter,       \* attribute Enlaces_iter of the nodes
    nodos_utilizados,
    salir_bucle,
    CCH_Data_Error,
    corrida,            \* 1: first computation of the hour, 2: repetition
    inyectado,          \* P_0 as add_cch_grafo left it
    primera,            \* the accumulators after the first computation
    subidos,            \* the nodes whose power went up, in the order of the walks
    \* ---- main: the days and hours of the date range ---------------------
    hpc,                \* position of the loops of lines 2904 and 2987
    fecha_datetime,     \* the day the while loop of line 2904 tests
    fecha,              \* the day whose load curves are in use
    colum_hora,         \* the hour of the for loop of line 2987
    converge,           \* resuelve_grafo resolves this graph (code 3, not 4)
    save_ddbb,          \* which tables are written to the database
    dias_con_cch,       \* days for which load curves were found
    horas_resueltas,    \* <<day, hour>> for which resuelve_grafo was called
    horas_guardadas,    \* <<day, hour>> with a result written
    dias_sin_cch,       \* days of the range found without load curves
    llamadas,           \* the calls of resuelve_grafo, in order
    \* ---- create_graph_dataframes: the distance table --------------------
    dpc,                \* position of the loop of line 1029
    df_Nodos_Trazas,    \* the nodes of the node table and of the spans
    LBT_ID_list,        \* <<TRAFO, LBT_ID>> of the known feeders
    fila_cups,          \* the customer row the loop has just processed
    df_matr_dist_fila,  \* the row of df_matr_dist written for it
    filas_dist,         \* customer rows processed
    tabla_sint,         \* df_ct_cups_ct when there are no nodes and no spans
    trazas_sint,        \* the rows lines 932-994 append to df_traza_ct
    \* ---- add_cups_grafo and the node lists of main ----------------------
    cpc,                \* position in add_cups_grafo and what follows it
    Gc_nodos,           \* G.nodes other than the customers
    Gc_enlaces,         \* G.edges: link -> its spans, each with Long, CABLE
    Gc_Enlaces_orig,    \* G.nodes[n]['Enlaces_orig'] and ['Enlaces_iter']
    tabla_cups,         \* the rows of df_ct_cups_ct with their nearest node
    fila_c,             \* rows of df_ct_cups_ct processed
    cups_nodo,          \* the node each customer is attached to
    cups_en_log,        \* customers named in an error of the log
    end_nodes_c,        \* end_nodes_sin_cups + nodos_cups_conectados
    \* ---- create_graph_dataframes: the cable of every span ---------------
    kpc,                \* position of the loop over the spans (line 580)
    catalogo,           \* the names of cable_library.xml
    df_cables,          \* CABLE_ORIG, TIPO_UBICACION, CABLE of df_traza_ct
    fila_k,             \* rows of df_traza_ct processed
    Cable,              \* the Conductor of line 582 after fload_library
    Found_cable,        \* what fload_library returned for the row
    buscados,           \* rows for which the search of line 585 was entered
    \* ---- graph_losses_calculation: the loop over the substations --------
    rpc,                \* position of the while loop of line 298
    archivo_CTs,        \* the lines of the file of substations
    linea,              \* lines of the file already read
    ejecutados,         \* Solve_Graph calls made
    vueltas             \* passes of the while loop made

varsMain == <<pc, use_gml_file, filas_leidas, n_trazas, trazas_cero,
              long_cero, sin_coord, cups_leidos, df_nodos_ct, df_traza_ct,
              df_ct_cups_ct, df_matr_dist, cups_agregado_CT, abortado_trazas,
              grafo_generado, gml_escrito, listas_calculadas, salida,
              n_update_error, nivel_registrado>>

varsGrafo == <<gpc, G_nodos, G_enlaces, N_ant, Enlaces_orig, filas_grafo,
               cont_enlaces_nuevos, contr_lazos, iter_lazos, bucle_found,
               G_antes, nivel_antes>>

varsCarga == <<lpc, arbol, df_AE_fecha, df_AS_fecha, filas_AE, filas_AS,
              P_0, P_cups, P_Linea,
               Enlaces_iter, nodos_utilizados, salir_bucle, CCH_Data_Error,
               corrida, inyectado, primera, subidos>>

varsHoras == <<hpc, fecha_datetime, fecha, colum_hora, converge, save_ddbb,
               dias_con_cch, horas_resueltas, horas_guardadas,
               dias_sin_cch, llamadas>>

varsDist == <<dpc, df_Nodos_Trazas, LBT_ID_list, fila_cups,
              df_matr_dist_fila, filas_dist, tabla_sint, trazas_sint>>

varsCups == <<cpc, Gc_nodos, Gc_enlaces, Gc_Enlaces_orig, tabla_cups,
              fila_c, cups_nodo, cups_en_log, end_nodes_c>>

varsCable == <<kpc, catalogo, df_cables, fila_k, Cable, Found_cable,
               buscados>>
varsDriver == <<rpc, archivo_CTs, linea, ejecutados, vueltas>>

vars == <<varsMain, graph_data_error, varsGrafo, varsCarga, varsHoras,
          varsDist, varsCups, varsCable, varsDriver>>

varsFueraMain == <<varsGrafo, varsCarga, varsHoras, varsDist, varsCups,
    varsCable, varsDriver>>
varsFueraGrafo == <<varsMain, varsCarga, varsHoras, varsDist, varsCups,
    varsCable, varsDriver>>
varsFueraCarga == <<varsMain, graph_data_error, varsGrafo, varsHoras,
                    varsDist, varsCups,
    varsCable, varsDriver>>
varsFueraHoras == <<varsMain, graph_data_error, varsGrafo, varsCarga,
                    varsDist, varsCups,
    varsCable, varsDriver>>
varsFueraDist == <<varsMain, varsGrafo, varsCarga, varsHoras, varsCups,
    varsCable, varsDriver>>
varsFueraCups == <<varsMain, graph_data_error, varsGrafo, varsCarga,
                   varsHoras, varsDist,
    varsCable, varsDriver>>

varsFueraCable == <<varsMain, varsGrafo, varsCarga, varsHoras, varsDist,
                    varsCups, varsDriver>>
varsFueraDriver == <<varsMain, graph_data_error, varsGrafo, varsCarga,
                     varsHoras, varsDist, varsCups, varsCable>>

\* the variables of the cable check and of the loop over the substations
\* while another part is analysed
CableEnReposo ==
    /\ kpc = "reposo"
    /\ catalogo = {}
    /\ df_cables = <<>>
    /\ fila_k = 0
    /\ Cable = <<>>
    /\ Found_cable = 0
    /\ buscados = {}

DriverEnReposo ==
    /\ rpc = "reposo"
    /\ archivo_CTs = <<>>
    /\ linea = 0
    /\ ejecutados = 0
    /\ vueltas = 0

\* the variables of add_cups_grafo while another part is analysed
CupsEnReposo ==
    /\ cpc = "reposo"
    /\ Gc_nodos = {}
    /\ Gc_enlaces = <<>>
    /\ Gc_Enlaces_orig = <<>>
    /\ tabla_cups = <<>>
    /\ fila_c = 0
    /\ cups_nodo = <<>>
    /\ cups_en_log = {}
    /\ end_nodes_c = {}

\* the variables of the distance table while another part is analysed
DistEnReposo ==
    /\ dpc = "reposo"
    /\ df_Nodos_Trazas = <<>>
    /\ LBT_ID_list = {}
    /\ fila_cups = <<>>
    /\ df_matr_dist_fila = <<>>
    /\ filas_dist = 0
    /\ tabla_sint = <<>>
    /\ trazas_sint = <<>>

\* the variables of the loops over days and hours while another part is
\* analysed
HorasEnReposo ==
    /\ hpc = "reposo"
    /\ fecha_datetime = 0
    /\ fecha = 0
    /\ colum_hora = 0
    /\ converge = TRUE
    /\ save_ddbb = 0
    /\ dias_con_cch = {}
    /\ horas_resueltas = {}
    /\ horas_guardadas = {}
    /\ dias_sin_cch = {}
    /\ llamadas = <<>>

\* the variables of the hourly computation while another part is analysed
CargaEnReposo ==
    /\ lpc = "reposo"
    /\ arbol = <<>>
    /\ df_AE_fecha = <<>>
    /\ df_AS_fecha = <<>>
    /\ filas_AE = <<>>
    /\ filas_AS = <<>>
    /\ P_0 = <<>>
    /\ P_cups = <<>>
    /\ P_Linea = <<>>
    /\ Enlaces_iter = <<>>
    /\ nodos_utilizados = {}
    /\ salir_bucle = 0
    /\ CCH_Data_Error = 0
    /\ corrida = 0
    /\ inyectado = <<>>
    /\ primera = <<>>
    /\ subidos = <<>>

\* the variables of genera_grafo while another part is being analysed
GrafoEnReposo ==
    /\ gpc = "reposo"
    /\ G_nodos = <<>>
    /\ G_enlaces = <<>>
    /\ N_ant = <<>>
    /\ Enlaces_orig = <<>>
    /\ filas_grafo = 0
    /\ cont_enlaces_nuevos = 0
    /\ contr_lazos = 0
    /\ iter_lazos = 0
    /\ bucle_found = 0
    /\ G_antes = <<>>
    /\ nivel_antes = 0

\* the variables of main while another part is being analysed
MainEnReposo ==
    /\ pc = "reposo"
    /\ use_gml_file = 1
    /\ filas_leidas = 0
    /\ n_trazas = 0
    /\ trazas_cero = 0
    /\ long_cero = 0
    /\ sin_coord = 0
    /\ cups_leidos = -1
    /\ df_nodos_ct = 0
    /\ df_traza_ct = 0
    /\ df_ct_cups_ct = 0
    /\ df_matr_dist = 0
    /\ cups_agregado_CT = 0
    /\ abortado_trazas = FALSE
    /\ grafo_generado = FALSE
    /\ gml_escrito = FALSE
    /\ listas_calculadas = FALSE
    /\ salida = "ninguna"
    /\ n_update_error = 0
    /\ nivel_registrado = -1

(***************************************************************************)
(* Helpers shared by the three parts.                                      *)
(***************************************************************************)
\* "if graph_data_error <= k: graph_data_error = k"
PonNivel(nivel, k) == k
SubeNivel(nivel, k) == IF nivel <= k THEN k ELSE nivel

\* math.sqrt on the integers of the model (floor of the root)
Raiz(n) == CHOOSE r \in 0..n : r * r <= n /\ (r + 1) * (r + 1) > n

(***************************************************************************)
(* create_graph_dataframes: the span rows.                                 *)
(***************************************************************************)
Coord == 0..MaxCoord

\* One row of the span table.  nodos: how NODO_ORIGEN / NODO_DESTINO parse;
\* xo..yd: the coordinates as read (0: not positive or not a number);
\* nudo: the coordinate the node table holds for the row's nodes (0: none).
FilasTraza ==
    [nodos : {"ok", "no_positivo", "no_entero"},
     xo : Coord, yo : Coord, xd : Coord, yd : Coord, nudo : 0..1]

\* a coordinate that is not positive is looked up in the node table
RepararCoord(valor, nudo) ==
    IF valor > 0 THEN valor ELSE IF nudo > 0 THEN nudo ELSE 0

CoordenadasReparadas(f) ==
    [xo |-> RepararCoord(f.xo, f.nudo), yo |-> RepararCoord(f.yo, f.nudo),
     xd |-> RepararCoord(f.xd, f.nudo), yd |-> RepararCoord(f.yd, f.nudo)]

TodasPositivas(c) == c.xo > 0 /\ c.yo > 0 /\ c.xd > 0 /\ c.yd > 0

\* long_calc of lines 540-543
LongCalc(c) ==
    IF TodasPositivas(c)
    THEN Raiz((c.xd - c.xo) * (c.xd - c.xo) + (c.yd - c.yo) * (c.yd - c.yo))
    ELSE 0

\* increment of trazas_cero for one kept row (lines 542-549)
SumaTrazaCeroLong(c) == IF LongCalc(c) = 0 THEN 1 ELSE 0
SumaTrazaCero(c) == IF TodasPositivas(c) THEN 0 ELSE 1

\* the test of line 759 (float division, strict comparison)
AbortaMuchasTrazas_ge(cero, total) ==
    total > 0 /\ cero * 100 >= UmbralTrazasCero * total
AbortaMuchasTrazas(cero, total) ==
    total > 0 /\ cero * 100 > UmbralTrazasCero * total

\* level after the node-identifier test of lines 367-382
NivelTrasNodos(nivel, f) ==
    IF f.nodos = "ok" THEN nivel ELSE SubeNivel(nivel, 2)

\* level after the length computation of lines 538-563
NivelTrasLongitud(nivel, c) ==
    IF TodasPositivas(c) THEN nivel ELSE SubeNivel(nivel, 1)

\* one iteration of the loop of lines 361-644
ProcesaTraza(f) ==
    /\ pc = "trazas"
    /\ filas_leidas < MaxTrazas
    /\ filas_leidas' = filas_leidas + 1
    /\ LET c == CoordenadasReparadas(f) IN
       IF f.nodos = "no_entero"
       THEN /\ graph_data_error' = NivelTrasNodos(graph_data_error, f)
            /\ UNCHANGED <<n_trazas, trazas_cero, long_cero, sin_coord>>
       ELSE /\ graph_data_error' =
                   NivelTrasLongitud(NivelTrasNodos(graph_data_error, f), c)
            /\ n_trazas' = n_trazas + 1
            /\ trazas_cero' = trazas_cero + SumaTrazaCero(c)
            /\ long_cero' = long_cero + (IF LongCalc(c) = 0 THEN 1 ELSE 0)
            /\ sin_coord' = sin_coord + (IF c.xo > 0 /\ c.yo > 0 /\ c.xd > 0 /\ c.yd > 0 THEN 0 ELSE 1)
    /\ UNCHANGED <<pc, use_gml_file, cups_leidos, df_nodos_ct, df_traza_ct,
                   df_ct_cups_ct, df_matr_dist, cups_agregado_CT,
                   abortado_trazas, grafo_generado, gml_escrito,
                   listas_calculadas, salida, n_update_error,
                   nivel_registrado>>
    /\ UNCHANGED varsFueraMain

\* every table is returned as [] (lines 768-774, 1006-1012)
DevuelveVacio ==
    /\ df_nodos_ct' = 0
    /\ df_traza_ct' = 0
    /\ df_ct_cups_ct' = 0
    /\ df_matr_dist' = 0
    /\ cups_agregado_CT' = 0

\* end of the span loop: rows dropped, then the 20 % test (lines 646-779)
FinTrazas ==
    /\ pc = "trazas"
    /\ IF AbortaMuchasTrazas(trazas_cero, n_trazas)
       THEN /\ graph_data_error' = SubeNivel(graph_data_error, 3)
            /\ n_update_error' = n_update_error + 1
            /\ nivel_registrado' = SubeNivel(graph_data_error, 3)
            /\ DevuelveVacio
            /\ abortado_trazas' = TRUE
            /\ pc' = "main_tablas"
       ELSE /\ df_traza_ct' = n_trazas
            /\ pc' = "cups"
            /\ UNCHANGED <<graph_data_error, n_update_error,
                           nivel_registrado, df_nodos_ct, df_ct_cups_ct,
                           df_matr_dist, cups_agregado_CT, abortado_trazas>>
    /\ UNCHANGED <<use_gml_file, filas_leidas, n_trazas, trazas_cero,
                   long_cero, sin_coord, cups_leidos, grafo_generado,
                   gml_escrito, listas_calculadas, salida>>
    /\ UNCHANGED varsFueraMain

(***************************************************************************)
(* create_graph_dataframes: customers, synthesized spans, distance table.  *)
(***************************************************************************)
\* level after the customer table has been read (lines 870-875)
NivelTrasCups(nivel, n) == IF n = 0 THEN SubeNivel(nivel, 3) ELSE nivel

\* lines 870-1177.  n: rows of the customer table, giss: head meters in it
LeeCups(n, giss) ==
    /\ pc = "cups"
    /\ giss <= n
    /\ cups_leidos' = n
    /\ LET nivel1 == NivelTrasCups(graph_data_error, n)
           sin_topologia == df_nodos_ct = 0 /\ df_traza_ct = 0
       IN
       IF sin_topologia /\ n = 0
       THEN \* lines 1000-1012: nothing to build the graph from
            /\ graph_data_error' = SubeNivel(nivel1, 3)
            /\ n_update_error' = n_update_error + 1
            /\ nivel_registrado' = SubeNivel(nivel1, 3)
            /\ DevuelveVacio
       ELSE /\ n_update_error' = n_update_error
            /\ nivel_registrado' = nivel_registrado
            /\ df_nodos_ct' = df_nodos_ct
            /\ df_ct_cups_ct' = n
            /\ cups_agregado_CT' = giss
            /\ df_matr_dist' = n
            \* lines 934-997: one span per customer that is not a head meter
            /\ df_traza_ct' = IF sin_topologia THEN n - giss ELSE df_traza_ct
            \* lines 1142-1147: an empty distance table is level 3
            /\ graph_data_error' =
                   IF n = 0 THEN SubeNivel(nivel1, 3)
                   ELSE IF sin_topologia /\ n > giss
                   THEN SubeNivel(nivel1, 2)
                   ELSE nivel1
    /\ pc' = "main_tablas"
    /\ UNCHANGED <<use_gml_file, filas_leidas, n_trazas, trazas_cero,
                   long_cero, sin_coord, abortado_trazas, grafo_generado,
                   gml_escrito, listas_calculadas, salida>>
    /\ UNCHANGED varsFueraMain

(***************************************************************************)
(* main                                                                    *)
(***************************************************************************)
\* the test of lines 2649-2651
AbortaTablasSiempre(nivel, trazas, dist, cups) == nivel = 3
AbortaTablas(nivel, trazas, dist, cups) ==
    nivel = 3 /\ trazas = 0 /\ dist = 0 /\ cups = 0

\* the test of line 2775
AbortaNuncaPorNivel(nivel) == FALSE
AbortaPorNivel(nivel) == nivel = 3

\* lines 2619-2633: the stored graph is read with its level res, or
\* reading fails (res = -1)
LeeGml(res) ==
    /\ pc = "gml"
    /\ IF res = -1
       THEN pc' = "trazas" /\ UNCHANGED graph_data_error
       ELSE pc' = "nivel" /\ graph_data_error' = res
    /\ UNCHANGED <<use_gml_file, filas_leidas, n_trazas, trazas_cero,
                   long_cero, sin_coord, cups_leidos, df_nodos_ct,
                   df_traza_ct, df_ct_cups_ct, df_matr_dist,
                   cups_agregado_CT, abortado_trazas, grafo_generado,
                   gml_escrito, listas_calculadas, salida, n_update_error,
                   nivel_registrado>>
    /\ UNCHANGED varsFueraMain

\* lines 2646-2651
CompruebaTablas ==
    /\ pc = "main_tablas"
    /\ IF AbortaTablas(graph_data_error, df_traza_ct, df_matr_dist,
                       df_ct_cups_ct)
       THEN pc' = "fin" /\ salida' = "abort_tablas"
       ELSE pc' = "genera_grafo" /\ salida' = salida
    /\ UNCHANGED <<graph_data_error, use_gml_file, filas_leidas, n_trazas,
                   trazas_cero, long_cero, sin_coord, cups_leidos,
                   df_nodos_ct, df_traza_ct, df_ct_cups_ct, df_matr_dist,
                   cups_agregado_CT, abortado_trazas, grafo_generado,
                   gml_escrito, listas_calculadas, n_update_error,
                   nivel_registrado>>
    /\ UNCHANGED varsFueraMain

\* lines 2660-2663.  enlaces_nuevos: the reachability passes added a link,
\* lazos: the cycle elimination found a loop (both raise the level to 2).
\* Without head meters the transformer is taken from the first node row
\* (line 1245), which raises on an empty node table.
LlamaGeneraGrafo(enlaces_nuevos, lazos) ==
    /\ pc = "genera_grafo"
    /\ grafo_generado' = TRUE
    /\ IF cups_agregado_CT = 0 /\ df_nodos_ct = 0
       THEN /\ pc' = "fin"
            /\ salida' = "excepcion"
            /\ UNCHANGED graph_data_error
       ELSE /\ pc' = "add_cups"
            /\ salida' = salida
            /\ graph_data_error' =
                   IF enlaces_nuevos \/ lazos
                   THEN SubeNivel(graph_data_error, 2)
                   ELSE graph_data_error
    /\ UNCHANGED <<use_gml_file, filas_leidas, n_trazas, trazas_cero,
                   long_cero, sin_coord, cups_leidos, df_nodos_ct,
                   df_traza_ct, df_ct_cups_ct, df_matr_dist,
                   cups_agregado_CT, abortado_trazas, gml_escrito,
                   listas_calculadas, n_update_error,
                   nivel_registrado>>
    /\ UNCHANGED varsFueraMain

\* lines 2668-2673
LlamaAddCups ==
    /\ pc = "add_cups"
    /\ graph_data_error' =
           IF df_ct_cups_ct > 0 THEN graph_data_error ELSE 3
    /\ pc' = "guardar"
    /\ UNCHANGED <<use_gml_file, filas_leidas, n_trazas, trazas_cero,
                   long_cero, sin_coord, cups_leidos, df_nodos_ct,
                   df_traza_ct, df_ct_cups_ct, df_matr_dist,
                   cups_agregado_CT, abortado_trazas, grafo_generado,
                   gml_escrito, listas_calculadas, salida, n_update_error,
                   nivel_registrado>>
    /\ UNCHANGED varsFueraMain

\* lines 2677-2711: Graph_ok attribute, CSV copies, nx.write_gml
GuardaGrafo ==
    /\ pc = "guardar"
    /\ gml_escrito' = TRUE
    /\ pc' = "nivel"
    /\ UNCHANGED <<graph_data_error, use_gml_file, filas_leidas, n_trazas,
                   trazas_cero, long_cero, sin_coord, cups_leidos,
                   df_nodos_ct, df_traza_ct, df_ct_cups_ct, df_matr_dist,
                   cups_agregado_CT, abortado_trazas, grafo_generado,
                   listas_calculadas, salida, n_update_error,
                   nivel_registrado>>
    /\ UNCHANGED varsFueraMain

\* lines 2772-2779
CompruebaNivel ==
    /\ pc = "nivel"
    /\ IF AbortaPorNivel(graph_data_error)
       THEN /\ n_update_error' = n_update_error + 2
            /\ pc' = "fin"
            /\ salida' = "abort_grafo"
       ELSE /\ n_update_error' = n_update_error + 1
            /\ pc' = "listas"
            /\ salida' = salida
    /\ nivel_registrado' = graph_data_error
    /\ UNCHANGED <<graph_data_error, use_gml_file, filas_leidas, n_trazas,
                   trazas_cero, long_cero, sin_coord, cups_leidos,
                   df_nodos_ct, df_traza_ct, df_ct_cups_ct, df_matr_dist,
                   cups_agregado_CT, abortado_trazas, grafo_generado,
                   gml_escrito, listas_calculadas>>
    /\ UNCHANGED varsFueraMain

\* lines 2786-2889: the node lists are computed, then main returns
CalculaListas ==
    /\ pc = "listas"
    /\ listas_calculadas' = TRUE
    /\ salida' = "eliminar"
    /\ pc' = "fin"
    /\ UNCHANGED <<graph_data_error, use_gml_file, filas_leidas, n_trazas,
                   trazas_cero, long_cero, sin_coord, cups_leidos,
                   df_nodos_ct, df_traza_ct, df_ct_cups_ct, df_matr_dist,
                   cups_agregado_CT, abortado_trazas, grafo_generado,
                   gml_escrito, n_update_error,
                   nivel_registrado>>
    /\ UNCHANGED varsFueraMain

InitMain ==
    /\ use_gml_file \in {0, 1}
    /\ pc = IF use_gml_file = 0 THEN "gml" ELSE "trazas"
    /\ graph_data_error = 0
    /\ filas_leidas = 0
    /\ n_trazas = 0
    /\ trazas_cero = 0
    /\ long_cero = 0
    /\ sin_coord = 0
    /\ cups_leidos = -1
    /\ df_nodos_ct \in 0..MaxNodosTabla
    /\ df_traza_ct = 0
    /\ df_ct_cups_ct = 0
    /\ df_matr_dist = 0
    /\ cups_agregado_CT = 0
    /\ abortado_trazas = FALSE
    /\ grafo_generado = FALSE
    /\ gml_escrito = FALSE
    /\ listas_calculadas = FALSE
    /\ salida = "ninguna"
    /\ n_update_error = 0
    /\ nivel_registrado = -1
    /\ GrafoEnReposo
    /\ CargaEnReposo
    /\ HorasEnReposo
    /\ DistEnReposo
    /\ CupsEnReposo
    /\ CableEnReposo
    /\ DriverEnReposo

NextMain ==
    \/ \E res \in -1..3 : LeeGml(res)
    \/ \E f \in FilasTraza : ProcesaTraza(f)
    \/ FinTrazas
    \/ \E n \in 0..MaxCupsTabla, giss \in 0..1 : LeeCups(n, giss)
    \/ CompruebaTablas
    \/ \E enlaces_nuevos \in BOOLEAN, lazos \in BOOLEAN :
           LlamaGeneraGrafo(enlaces_nuevos, lazos)
    \/ LlamaAddCups
    \/ GuardaGrafo
    \/ CompruebaNivel
    \/ CalculaListas

SpecMain == InitMain /\ [][NextMain]_vars

(***************************************************************************)
(* Claims about main and create_graph_dataframes (SpecMain).               *)
(***************************************************************************)
TablasVacias ==
    /\ df_nodos_ct = 0
    /\ df_traza_ct = 0
    /\ df_ct_cups_ct = 0
    /\ df_matr_dist = 0

\* C8: when the customer table has zero rows the run ends with level 3,
\* Topology Repair has returned no partial table and Graph Assembly has
\* not been run.
C8_SinClientesAborta ==
    (pc = "fin" /\ cups_leidos = 0) =>
        (graph_data_error = 3 /\ TablasVacias /\ ~grafo_generado)

C10_Nivel3SinPropagacion ==
    (pc = "fin" /\ graph_data_error = 3) =>
        /\ ~listas_calculadas
        /\ salida \in {"abort_tablas", "abort_grafo", "excepcion"}

C10_Testigo ==
    /\ pc = "fin"
    /\ graph_data_error = 3
    /\ grafo_generado
    /\ salida = "abort_grafo"

\* C12 as stated: every run of main that returns has called
\* update_graph_data_error at least once, the last time with the level the
\* run ends with.
C12_SiempreRegistraNivel ==
    (pc = "fin" /\ salida # "excepcion") =>
        (n_update_error >= 1 /\ nivel_registrado = graph_data_error)

\* the same on the runs that do not end at the test of line 2649 with
\* tables that lines 870-875 and 1142-1147 left empty
C12_RegistraSalvoTablasVacias ==
    (pc = "fin" /\ salida # "excepcion"
        /\ ~(salida = "abort_tablas" /\ cups_leidos = 0)) =>
        (n_update_error >= 1 /\ nivel_registrado = graph_data_error)

(***************************************************************************)
(* genera_grafo: the multigraph of one feeder.                             *)
(*                                                                         *)
(* Nodes are numbers: the substation, its virtual transformer nodes, the   *)
(* virtual node of the feeder, and the physical nodes NODO_LBT of the      *)
(* feeder.  The order of the numbers stands for the order of the names.    *)
(***************************************************************************)
CT == 0
CT_TR == 1
TR_400 == 2
CT_LBT == 3

Fisicos == (CT_LBT + 1)..(CT_LBT + MaxNodos)
Virtuales == {CT, CT_TR, TR_400, CT_LBT}
NodosG == Virtuales \cup Fisicos
\* the undirected pairs of nodes; <<n, n>> is a self-loop
Pares == {e \in NodosG \X NodosG : e[1] <= e[2]}

\* G_enlaces[u][v] = G_enlaces[v][u] is the number of edges between u and v
PonEnlaces(E, u, v, k) == [E EXCEPT ![u][v] = k, ![v][u] = k]

\* Tipo_Nodo is neither 'CT' nor 'CT_Virtual'
EsFisico(n) == n \in Fisicos

\* the graph after the virtual nodes have been created (lines 1216-1301)
NodosVirtuales == <<CT, CT_TR, TR_400, CT_LBT>>
EnlacesVirtuales ==
    [u \in NodosG |-> [v \in NodosG |->
        IF {u, v} \in {{CT, CT_TR}, {CT_TR, TR_400}, {TR_400, CT_LBT}}
        THEN 1 ELSE 0]]

Contiene(sec, x) == \E i \in 1..Len(sec) : sec[i] = x
AgregaSiFalta(sec, x) == IF Contiene(sec, x) THEN sec ELSE Append(sec, x)

\* neighbours of a node (the node itself when it carries a self-loop)
Vecinos(E, n) == {m \in NodosG : E[n][m] > 0}

\* len(np.unique(list(G.edges(nodo)))) - 1
EnlacesNodo(E, n) ==
    IF Vecinos(E, n) = {} THEN -1
    ELSE Cardinality(Vecinos(E, n) \cup {n}) - 1

\* the nodes connected to the nodes of S: vistos grows by the neighbours
\* of the nodes found last, until nothing new is found
RECURSIVE Alcanza2(_, _, _)
Alcanza2(E, vistos, frontera) ==
    IF frontera = {} THEN vistos
    ELSE LET nuevos == (UNION {Vecinos(E, n) : n \in frontera}) \ vistos
         IN Alcanza2(E, vistos \cup nuevos, nuevos)

Alcanza(E, S) == Alcanza2(E, S, S)

\* nx.shortest_path(G, str(id_ct), nodo) does not raise
HayRuta(E, n) == n \in Alcanza(E, {CT})

TotalEnlaces(E) ==
    LET RECURSIVE Suma(_)
        Suma(S) == IF S = {} THEN 0
                   ELSE LET e == CHOOSE x \in S : TRUE
                        IN E[e[1]][e[2]] + Suma(S \ {e})
    IN Suma(Pares)

\* one span row (lines 1306-1419): the end nodes are created when they are
\* missing, the edge gets the next free key, the destination one more N_ant
AgregaTraza(o, d) ==
    /\ gpc = "trazas"
    /\ filas_grafo < MaxEnlaces
    /\ filas_grafo' = filas_grafo + 1
    /\ G_nodos' = AgregaSiFalta(AgregaSiFalta(G_nodos, o), d)
    /\ G_enlaces' = PonEnlaces(G_enlaces, o, d, G_enlaces[o][d] + 1)
    /\ N_ant' = IF EsFisico(d) THEN [N_ant EXCEPT ![d] = @ + 1] ELSE N_ant
    /\ UNCHANGED <<gpc, Enlaces_orig, cont_enlaces_nuevos, contr_lazos,
                   iter_lazos, bucle_found, G_antes, nivel_antes,
                   graph_data_error>>
    /\ UNCHANGED varsFueraGrafo

RECURSIVE EnOrden(_)
EnOrden(S) ==
    IF S = {} THEN <<>>
    ELSE LET m == CHOOSE x \in S : \A y \in S : x <= y
         IN <<m>> \o EnOrden(S \ {m})

\* lines 1421-1452: nodes of the node table that no span mentions
AgregaNodosTabla(S) ==
    /\ gpc = "trazas"
    /\ Cardinality(S) <= MaxSueltos
    /\ \A n \in S : ~Contiene(G_nodos, n)
    /\ G_nodos' = G_nodos \o EnOrden(S)
    /\ gpc' = "recorrido1"
    /\ UNCHANGED <<G_enlaces, N_ant, Enlaces_orig, filas_grafo,
                   cont_enlaces_nuevos, contr_lazos, iter_lazos, bucle_found,
                   G_antes, nivel_antes, graph_data_error>>
    /\ UNCHANGED varsFueraGrafo

\* G.add_edge(nodo_origen, nodo, 0, ...) of lines 1495 and 1538
EnlazaConCT(E, n) == PonEnlaces(E, CT_LBT, n, 1)

\* which nodes get a new link in each of the two passes
FaltaEnlace1(E, Na, n) == EsFisico(n) /\ Na[n] = 0 /\ ~HayRuta(E, n)
FaltaEnlace2(E, Na, n) == ~HayRuta(E, n)

\* the loop of lines 1460-1501 from the i-th node on
RECURSIVE Recorrido1(_, _, _, _, _)
Recorrido1(nodos, E, Na, cont, i) ==
    IF i > Len(nodos) THEN [E |-> E, Na |-> Na, cont |-> cont]
    ELSE LET n == nodos[i] IN
         IF FaltaEnlace1(E, Na, n)
         THEN Recorrido1(nodos, EnlazaConCT(E, n),
                         [Na EXCEPT ![n] = @ + 1], cont + 1, i + 1)
         ELSE Recorrido1(nodos, E, Na, cont, i + 1)

PrimerRecorrido ==
    /\ gpc = "recorrido1"
    /\ \E r \in {Recorrido1(G_nodos, G_enlaces, N_ant, 0, 1)} :
       /\ G_enlaces' = r.E
       /\ N_ant' = r.Na
       /\ cont_enlaces_nuevos' = r.cont
    /\ gpc' = "recorrido2"
    /\ UNCHANGED <<G_nodos, Enlaces_orig, filas_grafo, contr_lazos,
                   iter_lazos, bucle_found, G_antes, nivel_antes,
                   graph_data_error>>
    /\ UNCHANGED varsFueraGrafo

\* the loop of lines 1509-1549 from the i-th node on
RECURSIVE Recorrido2(_, _, _, _, _, _)
Recorrido2(nodos, E, Na, Eo, cont, i) ==
    IF i > Len(nodos) THEN [E |-> E, Na |-> Na, Eo |-> Eo, cont |-> cont]
    ELSE IF FaltaEnlace2(E, Na, nodos[i])
         THEN Recorrido2(nodos, EnlazaConCT(E, nodos[i]),
                  IF EsFisico(nodos[i])
                  THEN [Na EXCEPT ![nodos[i]] = @ + 1] ELSE Na,
                  [Eo EXCEPT ![nodos[i]] =
                       EnlacesNodo(EnlazaConCT(E, nodos[i]), nodos[i])],
                  cont + 1, i + 1)
         ELSE Recorrido2(nodos, E, Na,
                  [Eo EXCEPT ![nodos[i]] = EnlacesNodo(E, nodos[i])],
                  cont, i + 1)

\* lines 1509-1562
SegundoRecorrido ==
    /\ gpc = "recorrido2"
    /\ \E r \in {Recorrido2(G_nodos, G_enlaces, N_ant, Enlaces_orig,
                              cont_enlaces_nuevos, 1)} :
       LET nivel == IF r.cont > 0 THEN SubeNivel(graph_data_error, 2)
                    ELSE graph_data_error
       IN
       /\ G_enlaces' = r.E
       /\ N_ant' = r.Na
       /\ Enlaces_orig' = r.Eo
       /\ cont_enlaces_nuevos' = r.cont
       /\ graph_data_error' = nivel
       /\ G_antes' = r.E
       /\ nivel_antes' = nivel
    /\ contr_lazos' = 0
    /\ iter_lazos' = 0
    /\ gpc' = "lazos"
    /\ UNCHANGED <<G_nodos, filas_grafo, bucle_found>>
    /\ UNCHANGED varsFueraGrafo

(***************************************************************************)
(* genera_grafo: the cycle elimination of lines 1561-1710.                 *)
(***************************************************************************)
\* the loop gives up after this many iterations (lines 1564 and 1705)
MaxIterLazos == 20

Rev(sec) == [i \in 1..Len(sec) |-> sec[Len(sec) + 1 - i]]

\* get_hashable_cycle of lines 1625-1634
GetHashableCycle(cycle) ==
    LET n == Len(cycle)
        mi == CHOOSE i \in 1..n : \A j \in 1..n : cycle[i] <= cycle[j]
        anterior == cycle[IF mi = 1 THEN n ELSE mi - 1]
        siguiente == cycle[IF mi < n THEN mi + 1 ELSE 1]
    IN IF anterior > siguiente
       THEN SubSeq(cycle, mi, n) \o SubSeq(cycle, 1, mi - 1)
       ELSE IF mi < n
            THEN Rev(SubSeq(cycle, 1, mi)) \o Rev(SubSeq(cycle, mi + 1, n))
            ELSE Rev(cycle)

\* every value cycle_stack takes during the search of lines 1636-1657:
\* the simple paths that start at the substation
RECURSIVE CaminosDesde(_, _)
CaminosDesde(E, camino) ==
    {camino} \cup
    UNION {CaminosDesde(E, Append(camino, m)) :
               m \in {x \in Vecinos(E, camino[Len(camino)]) :
                          ~Contiene(camino, x)}}

\* a child already on the stack closes a cycle when at least three nodes
\* lie between it and the top of the stack (line 1652)
CierraBucleCorto(E, camino, i) ==
    /\ Len(camino) - i + 1 >= 2
    /\ camino[i] \in Vecinos(E, camino[Len(camino)])
CierraBucle(E, camino, i) ==
    /\ Len(camino) - i + 1 >= 3
    /\ camino[i] \in Vecinos(E, camino[Len(camino)])

\* find_all_cycles without the final sort: the set output_cycles
FindAllCyclesNada(E) == {}
FindAllCycles(E) ==
    UNION {{GetHashableCycle(SubSeq(camino, i, Len(camino))) :
                i \in {k \in 1..Len(camino) : CierraBucle(E, camino, k)}} :
           camino \in CaminosDesde(E, <<CT>>)}

\* list_bucles[0]: sorted() by length leaves any of the shortest first
PrimerosBucles(E) ==
    {b \in FindAllCycles(E) : \A b2 \in FindAllCycles(E) : Len(b) <= Len(b2)}

\* the edges of a cycle as pairs of consecutive nodes
EnlacesDeBucle(b) ==
    {<<b[i], b[IF i < Len(b) THEN i + 1 ELSE 1]>> : i \in 1..Len(b)}

\* nx.find_cycle(G, source=str(id_ct), orientation="ignore"): which cycle
\* the edge search meets first depends on the order of the adjacency, so
\* every cycle of the component of the substation is a possible answer:
\* a self-loop (1 edge), two parallel edges (2 edges) or a longer cycle.
\* len = 0 stands for NetworkXNoCycle.  u, v are the ends of list_cycle[0].
CiclosDeFindCycle(E) ==
    LET alc == Alcanza(E, {CT}) IN
    {[len |-> 1, u |-> n, v |-> n] : n \in {x \in alc : E[x][x] > 0}}
    \cup
    UNION {{[len |-> 2, u |-> a, v |-> b] :
                b \in {x \in alc : x # a /\ E[a][x] >= 2}} : a \in alc}
    \cup
    UNION {{[len |-> Len(b), u |-> e[1], v |-> e[2]] :
                e \in EnlacesDeBucle(b)} : b \in FindAllCycles(E)}

FindCycle(E) ==
    IF CiclosDeFindCycle(E) = {}
    THEN {[len |-> 0, u |-> CT, v |-> CT]}
    ELSE CiclosDeFindCycle(E)

\* "if len(list_cycle) >= 3" (lines 1577 and 1604)
EsBucleDesde2(longitud) == longitud >= 2
EsBucle(longitud) == longitud >= 3

\* the level once a loop has been found (lines 1579-1580, 1669-1670)
NivelSinCambio(nivel) == nivel
NivelTrasLazo(nivel) == SubeNivel(nivel, 2)

\* every parallel edge between two nodes is removed (lines 1582-1599)
QuitaEnlaces(E, u, v) == PonEnlaces(E, u, v, 0)

\* counters that would keep the values they had before the removal
SinActualizarEnlaces(Eo, E, u, v) == Eo
\* Enlaces_orig of the two ends is recomputed (lines 1593-1596)
ActualizaEnlaces(Eo, E, u, v) ==
    [Eo EXCEPT ![u] = EnlacesNodo(E, u), ![v] = EnlacesNodo(E, v)]

\* lines 1564-1615: one iteration of the while loop up to method 1.
\* c is the answer of the first find_cycle.
Metodo1 ==
    /\ gpc = "lazos"
    /\ contr_lazos = 0 /\ iter_lazos <= MaxIterLazos
    /\ iter_lazos' = iter_lazos + 1
    /\ bucle_found' = 0
    /\ \E c \in FindCycle(G_enlaces) :
       IF EsBucle(c.len)
       THEN \E E1 \in {QuitaEnlaces(G_enlaces, c.u, c.v)} :
            /\ graph_data_error' = NivelTrasLazo(graph_data_error)
            /\ G_enlaces' = E1
            /\ Enlaces_orig' = ActualizaEnlaces(Enlaces_orig, E1, c.u, c.v)
            \* the second find_cycle of line 1603
            /\ \E c2 \in FindCycle(E1) :
                   contr_lazos' = IF EsBucle(c2.len) THEN 0 ELSE 1
       ELSE /\ contr_lazos' = 1
            /\ UNCHANGED <<graph_data_error, G_enlaces, Enlaces_orig>>
    /\ gpc' = "metodo2"
    /\ UNCHANGED <<G_nodos, N_ant, filas_grafo, cont_enlaces_nuevos,
                   G_antes, nivel_antes>>
    /\ UNCHANGED varsFueraGrafo

\* lines 1668-1695: one iteration of the while loop of method 2.
\* b is list_bucles[0]; its last two nodes are disconnected.
Metodo2Paso ==
    /\ gpc = "metodo2"
    /\ \E b \in PrimerosBucles(G_enlaces) :
       LET nodo_ini == b[Len(b) - 1]
           nodo_fin == b[Len(b)]
           E1 == QuitaEnlaces(G_enlaces, nodo_ini, nodo_fin)
       IN
       /\ G_enlaces' = E1
       /\ Enlaces_orig' = ActualizaEnlaces(Enlaces_orig, E1, nodo_ini, nodo_fin)
    /\ graph_data_error' = NivelTrasLazo(graph_data_error)
    /\ bucle_found' = 0
    /\ UNCHANGED <<gpc, G_nodos, N_ant, filas_grafo, cont_enlaces_nuevos,
                   contr_lazos, iter_lazos, G_antes, nivel_antes>>
    /\ UNCHANGED varsFueraGrafo

\* lines 1698-1702: end of one iteration of the outer loop
FinIteracion ==
    /\ gpc = "metodo2"
    /\ FindAllCycles(G_enlaces) = {}
    /\ IF bucle_found = 1
       THEN /\ graph_data_error' = SubeNivel(graph_data_error, 3)
            /\ contr_lazos' = 0
       ELSE UNCHANGED <<graph_data_error, contr_lazos>>
    /\ gpc' = "lazos"
    /\ UNCHANGED <<G_nodos, G_enlaces, N_ant, Enlaces_orig, filas_grafo,
                   cont_enlaces_nuevos, iter_lazos, bucle_found, G_antes,
                   nivel_antes>>
    /\ UNCHANGED varsFueraGrafo

\* "if iter_lazos >= 20" (line 1705)
SobrepasaLazosDesde2(iter) == iter >= 2
SobrepasaLazos(iter) == iter >= MaxIterLazos

\* lines 1705-1710: the loop has ended, genera_grafo returns
FinLazos ==
    /\ gpc = "lazos"
    /\ ~(contr_lazos = 0 /\ iter_lazos <= MaxIterLazos)
    /\ graph_data_error' =
           IF SobrepasaLazos(iter_lazos) THEN SubeNivel(graph_data_error, 3)
           ELSE graph_data_error
    /\ gpc' = "fin"
    /\ UNCHANGED <<G_nodos, G_enlaces, N_ant, Enlaces_orig, filas_grafo,
                   cont_enlaces_nuevos, contr_lazos, iter_lazos, bucle_found,
                   G_antes, nivel_antes>>
    /\ UNCHANGED varsFueraGrafo

InitGraph ==
    /\ gpc = "trazas"
    /\ graph_data_error \in {0, 3}
    /\ G_nodos = NodosVirtuales
    /\ G_enlaces = EnlacesVirtuales
    /\ N_ant = [n \in Fisicos |-> 0]
    /\ Enlaces_orig = [n \in NodosG |-> 0]
    /\ filas_grafo = 0
    /\ cont_enlaces_nuevos = 0
    /\ contr_lazos = 0
    /\ iter_lazos = 0
    /\ bucle_found = 0
    /\ G_antes = EnlacesVirtuales
    /\ nivel_antes = 0
    /\ MainEnReposo
    /\ CargaEnReposo
    /\ HorasEnReposo
    /\ DistEnReposo
    /\ CupsEnReposo
    /\ CableEnReposo
    /\ DriverEnReposo

NextGraph ==
    \/ \E o \in Fisicos \cup {CT_LBT}, d \in Fisicos \cup {CT_LBT} :
           AgregaTraza(o, d)
    \/ \E S \in SUBSET Fisicos : AgregaNodosTabla(S)
    \/ PrimerRecorrido
    \/ SegundoRecorrido
    \/ Metodo1
    \/ Metodo2Paso
    \/ FinIteracion
    \/ FinLazos

SpecGraph == InitGraph /\ [][NextGraph]_vars

\* the pairs a span row of the feeder can join, origin before destination
ParesDeTraza == {e \in Pares : e[1] >= CT_LBT /\ e[2] \in Fisicos}

\* the graph lines 1306-1419 build from the span rows T
GrafoDeTrazas(T) ==
    [u \in NodosG |-> [v \in NodosG |->
        IF <<u, v>> \in T \/ <<v, u>> \in T THEN 1
        ELSE EnlacesVirtuales[u][v]]]

\* the cycle elimination taken on its own: the state at line 1561 after
\* the assembly of span rows, one per pair of T, that leave no node without
\* a path to the substation (no link is added by lines 1460-1549)
InitLazos ==
    /\ gpc = "lazos"
    /\ graph_data_error \in {0, 3}
    /\ nivel_antes = graph_data_error
    /\ \E T \in SUBSET ParesDeTraza :
       LET E == GrafoDeTrazas(T)
           S == {n \in Fisicos : \E e \in T : n \in {e[1], e[2]}}
       IN
       /\ \A n \in S : HayRuta(E, n)
       /\ G_nodos = NodosVirtuales \o EnOrden(S)
       /\ G_enlaces = E
       /\ G_antes = E
       /\ N_ant = [n \in Fisicos |-> Cardinality({e \in T : e[2] = n})]
       /\ Enlaces_orig = [n \in NodosG |->
              IF n \in S \cup Virtuales THEN EnlacesNodo(E, n) ELSE 0]
       /\ filas_grafo = Cardinality(T)
    /\ cont_enlaces_nuevos = 0
    /\ contr_lazos = 0
    /\ iter_lazos = 0
    /\ bucle_found = 0
    /\ MainEnReposo
    /\ CargaEnReposo
    /\ HorasEnReposo
    /\ DistEnReposo
    /\ CupsEnReposo
    /\ CableEnReposo
    /\ DriverEnReposo

NextLazos ==
    \/ Metodo1
    \/ Metodo2Paso
    \/ FinIteracion
    \/ FinLazos

SpecLazos == InitLazos /\ [][NextLazos]_vars

(***************************************************************************)
(* Claims about genera_grafo (SpecGraph).                                  *)
(***************************************************************************)
NodosDeG == {G_nodos[i] : i \in 1..Len(G_nodos)}

\* pairs of distinct nodes joined by at least one edge
NumVinculos(E) ==
    Cardinality({e \in Pares : e[1] < e[2] /\ E[e[1]][e[2]] > 0})

SinLazosPropios(E) == \A n \in NodosG : E[n][n] = 0

Conectado(E) == \A n \in NodosDeG : HayRuta(E, n)

\* a tree once parallel edges count as one link and self-loops are ignored
EsArbol(E) == Conectado(E) /\ NumVinculos(E) = Len(G_nodos) - 1

\* number of simple paths from the substation to a node
NumCaminos(E, n) ==
    Cardinality({c \in CaminosDesde(E, <<CT>>) : c[Len(c)] = n})

\* C2 as stated: when the cycle elimination ends below level 3 the graph
\* has no cycle at all (parallel spans counting as one link) and every
\* node has exactly one path from the substation.
C2_SinNingunCiclo ==
    (gpc = "fin" /\ graph_data_error < 3) =>
        /\ SinLazosPropios(G_enlaces)
        /\ EsArbol(G_enlaces)
        /\ \A n \in NodosDeG : NumCaminos(G_enlaces, n) = 1

\* C2 amended: when the cycle elimination ends below level 3 the graph has
\* no cycle through two or more nodes (parallel spans counting as one
\* link) and every node has exactly one path from the substation; a span
\* whose two ends are the same node is left in place.
C2_SinCiclosEntreNodos ==
    (gpc = "fin" /\ graph_data_error < 3) =>
        /\ EsArbol(G_enlaces)
        /\ \A n \in NodosDeG : NumCaminos(G_enlaces, n) = 1

C2_Testigo ==
    /\ gpc = "fin"
    /\ graph_data_error < 3
    /\ G_enlaces # G_antes
    /\ \E n \in Fisicos : G_enlaces[n][n] > 0

\* C14: the outer loop of the cycle elimination never runs more than 20
\* times, and when it has ended with no cycle left in the graph the level
\* has not been raised to 3 by the cycle elimination.
C14_LazosAcotados ==
    /\ iter_lazos <= MaxIterLazos
    /\ (gpc = "fin" /\ FindAllCycles(G_enlaces) = {} /\ nivel_antes < 3) =>
           graph_data_error < 3

C14_Testigo ==
    /\ gpc = "fin"
    /\ iter_lazos >= 2
    /\ G_enlaces # G_antes
    /\ graph_data_error = 2

\* C17: when the graph has been assembled and its cycles removed, the
\* original link count of every node is the number of distinct neighbours
\* it has in the graph, links added by the reachability pass included and
\* removed edges excluded.  No customer is attached yet, and add_cups_grafo
\* recomputes the count of none of these nodes but the transformer node.
C17_EnlacesIgualVecinos ==
    gpc = "fin" =>
        \A n \in NodosDeG :
            Enlaces_orig[n] = Cardinality(Vecinos(G_enlaces, n) \ {n})

\* C3: when genera_grafo returns, every node of the graph has a path to
\* the substation.
C3_TodosConRuta ==
    gpc = "fin" => \A n \in NodosDeG : HayRuta(G_enlaces, n)

C3_Testigo ==
    /\ gpc = "fin"
    /\ cont_enlaces_nuevos >= 1
    /\ G_enlaces # G_antes
    /\ Len(G_nodos) = Cardinality(NodosG)

\* the graph has exactly one loop, of three or more nodes, and every link
\* of the loop is a single span
UnSoloBucle(E) ==
    /\ Conectado(E)
    /\ NumVinculos(E) = Len(G_nodos)
    /\ SinLazosPropios(E)
    /\ \A b \in FindAllCycles(E) :
           \A e \in EnlacesDeBucle(b) : E[e[1]][e[2]] = 1

YaEsArbol(E) == EsArbol(E) /\ SinLazosPropios(E)

C7_ArbolIntacto ==
    (gpc = "fin" /\ YaEsArbol(G_antes)) =>
        /\ G_enlaces = G_antes
        /\ graph_data_error = nivel_antes
        /\ FindAllCycles(G_enlaces) = {}

C7_Testigo ==
    /\ gpc = "fin"
    /\ YaEsArbol(G_antes)
    /\ filas_grafo >= 3
    /\ \E u \in Fisicos, v \in Fisicos : u # v /\ G_antes[u][v] >= 2

(***************************************************************************)
(* The data-quality level over main, create_graph_dataframes and           *)
(* genera_grafo.                                                           *)
(***************************************************************************)
SpecNivel == (InitMain \/ InitGraph) /\ [][NextMain \/ NextGraph]_vars

\* C13: the data-quality level is an integer of 0..3 and no step of
\* create_graph_dataframes, genera_grafo or main replaces it by a smaller
\* value.
C13_NivelNoBaja ==
    /\ [](graph_data_error \in 0..3)
    /\ [][graph_data_error' >= graph_data_error]_vars

C13_Testigo ==
    \/ pc = "fin" /\ graph_data_error = 3 /\ grafo_generado /\ n_trazas >= 1
    \/ gpc = "fin" /\ graph_data_error = 2 /\ G_enlaces # G_antes

(***************************************************************************)
(* add_cch_grafo and resuelve_grafo on a tree-shaped graph.                *)
(*                                                                         *)
(* The tree is what genera_grafo and add_cups_grafo leave: the substation, *)
(* the virtual nodes of one transformer, one or two feeders, the physical  *)
(* nodes and the customers.  A 230 V head meter adds the virtual node      *)
(* TR_230 under the transformer (lines 1232-1241); a feeder known only     *)
(* from the customer table has customers and no span (lines 1078-1083).    *)
(* Power is counted in thirds of a kW, so that a third of a three-phase    *)
(* customer is a whole number; reactive power is always 0 (Q_CUP = 0).     *)
(***************************************************************************)
TR_230 == CT_LBT + MaxNodos + 1
CT_LBT2 == CT_LBT + MaxNodos + 2

\* the virtual nodes of the transformers after the first one: the node of
\* the transformer, its 400 V node and its feeder (lines 1254-1301)
MaxTrafosArbol == 3
NodoTrafo(t) == IF t = 1 THEN CT_TR ELSE CT_LBT2 + 3 * (t - 2) + 1
NodoTrafo400(t) == IF t = 1 THEN TR_400 ELSE CT_LBT2 + 3 * (t - 2) + 2
NodoAlimentador(t) == IF t = 1 THEN CT_LBT ELSE CT_LBT2 + 3 * (t - 2) + 3
OtrosVirtuales == (CT_LBT2 + 1)..(CT_LBT2 + 3 * (MaxTrafosArbol - 1))

NodosC == CT..(CT_LBT2 + 3 * (MaxTrafosArbol - 1))
Alimentadores == {CT_LBT, CT_LBT2}
Cups == 1..MaxCups
Fases == {"R", "S", "T"}

\* hourly values of the load curves: imported and exported energy
ValoresAE == {0, 3}
ValoresAS == {0, 6}

\* G.nodes[cups]['TIPO_CONEXION'] and ['AMM_FASE'] of the customers
TipoConexion(c) == IF c % 2 = 1 THEN "MONOFASICO" ELSE "TRIFASICO"
AmmFase(c) == IF c % 2 = 1 THEN "S" ELSE "R"

\* physical nodes of the trees on which the hours are computed
MaxNodosArbol == 2

\* the trees of the model: k physical nodes, each under a feeder or under
\* an earlier physical node; the first link may have parallel spans
ArbolDe(k, hay230, hay2, pf, paralelos, conexion) ==
    [nodos |-> {CT, CT_TR, TR_400, CT_LBT}
                 \cup {n \in Fisicos : n <= CT_LBT + k}
                 \cup (IF hay230 THEN {TR_230} ELSE {})
                 \cup (IF hay2 THEN {CT_LBT2} ELSE {}),
     padre |-> [n \in NodosC |->
                  IF n \in Fisicos THEN pf[n]
                  ELSE IF n \in Alimentadores THEN TR_400
                  ELSE IF n \in {TR_400, TR_230} THEN CT_TR
                  ELSE CT],
     par |-> [n \in NodosC |-> IF n = CT_LBT + 1 THEN paralelos ELSE 1],
     cups |-> conexion]

ArbolBienFormado(a) ==
    /\ \A n \in a.nodos \cap Fisicos :
           /\ a.padre[n] \in a.nodos
           /\ a.padre[n] \in Alimentadores \/ a.padre[n] < n
    /\ \A n \in Fisicos \ a.nodos : a.padre[n] = CT_LBT
    /\ \A c \in Cups : a.cups[c] \in a.nodos \cap (Alimentadores \cup Fisicos)
    \* a feeder exists because a span or a customer names it
    /\ \A al \in a.nodos \cap Alimentadores :
           \/ \E n \in a.nodos \cap Fisicos : a.padre[n] = al
           \/ \E c \in Cups : a.cups[c] = al

Hijos(a, n) == {m \in a.nodos : m # CT /\ a.padre[m] = n}

\* the neighbours of a node that are not customers
VecinosSinCups(a, n) ==
    Hijos(a, n) \cup (IF n = CT THEN {} ELSE {a.padre[n]})

CupsDe(a, n) == {c \in Cups : a.cups[c] = n}

\* Enlaces_orig as genera_grafo computes it, before customers are attached
EnlacesOrig(a, n) == Cardinality(VecinosSinCups(a, n))

\* Long of the edges of the link above a node: virtual links have length 0
LongTramo(n) == IF n \in Fisicos THEN 1 ELSE 0

\* G.nodes in insertion order: virtual nodes first, then the physical ones
OrdenNodos(a) ==
    SelectSeq(<<CT, CT_TR, TR_230, TR_400, CT_LBT, CT_LBT2>>
                  \o EnOrden(OtrosVirtuales) \o EnOrden(Fisicos),
              LAMBDA n : n \in a.nodos)

\* the counters of lines 2813-2833 for one node
NumCups(a, n) == IF n \in Fisicos THEN Cardinality(CupsDe(a, n)) ELSE 0
NumDesc(a, n) ==
    IF n \in Fisicos THEN Cardinality(VecinosSinCups(a, n)) ELSE 0
NumDescSpl(a, n) == Cardinality(VecinosSinCups(a, n))

\* the node lists of lines 2786-2878
SplittingNodesSinCups(a) ==
    SelectSeq(OrdenNodos(a), LAMBDA n : NumDescSpl(a, n) >= 3)
NodosCupsConectados(a) ==
    SelectSeq(OrdenNodos(a), LAMBDA n : NumCups(a, n) > 0 /\ NumDesc(a, n) = 1)
EndNodesSinCups(a) ==
    SelectSeq(OrdenNodos(a), LAMBDA n : NumDesc(a, n) = 1 /\ NumCups(a, n) = 0)
\* line 3003 of main
EndNodesCups(a) == EndNodesSinCups(a) \o NodosCupsConectados(a)

ElementosDe(sec) == {sec[i] : i \in 1..Len(sec)}

\* The nodes of G are texts (str(self.id_ct), line 1226) and self.id_ct is
\* the integer the caller read from its file (line 125): a Python integer
\* is never equal to a text
Entero(n) == <<"int", n>>
Texto(n) == <<"str", n>>
id_ct == Entero(CT)

\* "if self.id_ct in lista: lista.remove(self.id_ct)", lines 2997-2998 and
\* 3003-3004
QuitaIdCt(lista) ==
    IF \E i \in 1..Len(lista) : Texto(lista[i]) = id_ct
    THEN SelectSeq(lista, LAMBDA n : Texto(n) # id_ct)
    ELSE lista

\* the lists main passes to resuelve_grafo, lines 2993-3010
EndNodesResuelve(a) == QuitaIdCt(EndNodesCups(a))
SplittingResuelve(a) == QuitaIdCt(SplittingNodesSinCups(a))

Ceros == [f \in Fases |-> 0]

InitCarga ==
    /\ lpc = "add_cch"
    \* main goes on only when the table of spans has rows: k >= 1
    /\ \E k \in 1..MaxNodosArbol, hay230 \in BOOLEAN, hay2 \in BOOLEAN :
       \E pf \in [Fisicos -> Alimentadores \cup Fisicos] :
           /\ \A n \in Fisicos :
                  IF n <= CT_LBT + k
                  THEN /\ pf[n] \in Alimentadores \/ pf[n] < n
                       /\ pf[n] = CT_LBT2 => hay2
                  ELSE pf[n] = CT_LBT
           /\ \E paralelos \in 1..MaxParalelos :
              /\ \E conexion \in [Cups -> Alimentadores \cup Fisicos] :
                 /\ ArbolBienFormado(
                        ArbolDe(k, hay230, hay2, pf, paralelos, conexion))
                 /\ arbol = ArbolDe(k, hay230, hay2, pf, paralelos, conexion)
    /\ df_AE_fecha \in [Cups -> ValoresAE]
    /\ df_AS_fecha \in [Cups -> ValoresAS]
    /\ P_0 = [n \in NodosC |-> Ceros]
    /\ P_cups = [c \in Cups |-> Ceros]
    /\ P_Linea = [n \in NodosC |-> Ceros]
    /\ Enlaces_iter = [n \in NodosC |-> EnlacesOrig(arbol, n)]
    /\ nodos_utilizados = {}
    /\ salir_bucle = 0
    /\ CCH_Data_Error = 0
    /\ corrida = 1
    /\ inyectado = [n \in NodosC |-> Ceros]
    /\ primera = <<>>
    /\ subidos = <<>>
    \* the hours are computed on a graph that was built without error
    /\ graph_data_error = 0
    /\ MainEnReposo
    /\ GrafoEnReposo
    /\ HorasEnReposo
    /\ DistEnReposo
    /\ CupsEnReposo
    /\ CableEnReposo
    /\ DriverEnReposo

\* the load tables hold one row per customer
InitLoad ==
    /\ InitCarga
    /\ filas_AE = [c \in Cups |-> 1]
    /\ filas_AS = [c \in Cups |-> 1]

\* rows that differ in DATA_VALIDATION or in a value survive the
\* drop_duplicates of lines 2935 and 2957: a customer may have several rows
InitCch ==
    /\ InitCarga
    /\ filas_AE \in [Cups -> 1..MaxFilasCups]
    /\ filas_AS \in [Cups -> 1..MaxFilasCups]

(***************************************************************************)
(* add_cch_grafo (lines 2081-2254)                                         *)
(***************************************************************************)
\* lines 2101-2117: every accumulator of the edges and of the nodes is 0
SinPonerACero(acumulador) == acumulador
PonACero(acumulador) == [x \in DOMAIN acumulador |-> Ceros]

\* the power a row adds to each phase of the node of the customer
Reparto(tipo, fase, potencia) ==
    [f \in Fases |->
        IF tipo = "TRIFASICO" THEN potencia \div 3
        ELSE IF f = fase THEN potencia ELSE 0]

\* lines 2120-2168: the row of customer c in df_AE_fecha
FilaAE(st, c, valor) ==
    LET tipo == IF valor > 0 THEN TipoConexion(c) ELSE "MONOFASICO"
        fase == IF valor > 0 THEN AmmFase(c) ELSE "R"
        potencia == IF valor > 0 THEN valor ELSE 0
        r == Reparto(tipo, fase, potencia)
        nodo == arbol.cups[c]
    IN [P |-> [st.P EXCEPT ![nodo] = [f \in Fases |-> @[f] + r[f]]],
        Pc |-> [st.Pc EXCEPT ![c] =
                   [f \in Fases |->
                       IF tipo = "TRIFASICO" \/ f = fase THEN r[f] ELSE @[f]]]]

\* lines 2193-2252: the row of customer c in df_AS_fecha
FilaAS(st, c, valor) ==
    LET tipo == IF valor > 0 THEN TipoConexion(c) ELSE "MONOFASICO"
        fase == IF valor > 0 THEN AmmFase(c) ELSE "R"
        potencia == IF valor > 0 THEN 0 - valor ELSE 0
        r == Reparto(tipo, fase, potencia)
        nodo == arbol.cups[c]
    IN [P |-> [st.P EXCEPT ![nodo] = [f \in Fases |-> @[f] + r[f]]],
        Pc |-> [st.Pc EXCEPT ![c] = [f \in Fases |-> @[f] + r[f]]]]

\* the loops of lines 2120 and 2193 visit every row of the table: for each
\* row of customer c the largest value of its rows is taken (lines 2125,
\* 2198), so the row of the customer is applied once per row it has.
\* i counts the rows of c already visited.
RECURSIVE FilasAE(_, _, _)
FilasAE(st, c, i) ==
    IF c > MaxCups THEN st
    ELSE IF i >= filas_AE[c] THEN FilasAE(st, c + 1, 0)
    ELSE FilasAE(FilaAE(st, c, df_AE_fecha[c]), c, i + 1)

RECURSIVE FilasAS(_, _, _)
FilasAS(st, c, i) ==
    IF c > MaxCups THEN st
    ELSE IF i >= filas_AS[c] THEN FilasAS(st, c + 1, 0)
    ELSE FilasAS(FilaAS(st, c, df_AS_fecha[c]), c, i + 1)

AddCchGrafo ==
    /\ lpc = "add_cch"
    /\ \E st \in {FilasAS(FilasAE([P |-> PonACero(P_0),
                                   Pc |-> PonACero(P_cups)], 1, 0), 1, 0)} :
           /\ P_0' = st.P
           /\ P_cups' = st.Pc
           /\ inyectado' = st.P
    /\ P_Linea' = PonACero(P_Linea)
    \* main sets CCH_Data_Error = 3 before it calls resuelve_grafo
    /\ CCH_Data_Error' = 3
    /\ lpc' = "resuelve"
    /\ UNCHANGED <<arbol, df_AE_fecha, df_AS_fecha, filas_AE, filas_AS,
                   Enlaces_iter,
                   nodos_utilizados, salir_bucle, corrida, primera, subidos>>
    /\ UNCHANGED varsFueraCarga

(***************************************************************************)
(* resuelve_grafo (lines 2259-2545)                                        *)
(***************************************************************************)
\* lines 2282-2284
ReiniciaEnlaces(a, Ei) == [n \in NodosC |-> EnlacesOrig(a, n)]

\* Loss of one edge of a link of N parallel edges below which the power
\* of a phase is P: the current is |P| / N and the loss grows with its
\* square and with the length (lines 2310-2355).  The resistance of
\* cable.Conductor is taken as constant.
\* the loss of a span that carried the whole current of the node
PerdidaCorrienteEntera(P, N, Long) == (Long * P * P) \div 2
PerdidaTramo(P, N, Long) == (Long * P * P) \div (2 * N * N)


\* the loss with the sign of the power of the downstream node
ConSigno(P, perdida) == IF P < 0 THEN 0 - perdida ELSE perdida

SubeTramoConSigno(st, nodo_old) ==
    LET row2 == arbol.padre[nodo_old]
        N_anteriores == arbol.par[nodo_old]
        perdida == [f \in Fases |->
                      PerdidaTramo(st.P[nodo_old][f], N_anteriores,
                                   LongTramo(nodo_old))]
    IN [st EXCEPT
           !.L[nodo_old] =
               [f \in Fases |->
                   @[f] + ConSigno(st.P[nodo_old][f], perdida[f])],
           !.P[row2] =
               [f \in Fases |->
                   @[f] + st.P[nodo_old][f]
                   + N_anteriores * ConSigno(st.P[nodo_old][f], perdida[f])],
           !.E[nodo_old] = @ - 1,
           !.S = Append(@, nodo_old)]

\* lines 2295-2398: the edges between nodo_old and row2 = its parent
SubeTramo(st, nodo_old) ==
    LET row2 == arbol.padre[nodo_old]
        N_anteriores == arbol.par[nodo_old]
        perdida == [f \in Fases |->
                      PerdidaTramo(st.P[nodo_old][f], N_anteriores,
                                   LongTramo(nodo_old))]
    IN [st EXCEPT
           !.L[nodo_old] =
               [f \in Fases |->
                   IF st.P[nodo_old][f] < 0 THEN @[f] - perdida[f]
                   ELSE @[f] + perdida[f]],
           !.P[row2] =
               [f \in Fases |->
                   @[f] + st.P[nodo_old][f] + N_anteriores * perdida[f]],
           !.E[nodo_old] = @ - 1,
           !.S = Append(@, nodo_old)]

\* a walk that would go on through a node with three links still pending
EsperaMasRamasDe3(pendientes) == pendientes > 3
\* "if G.nodes[row2]['Enlaces_iter'] > 2" of line 2528
EsperaMasRamas(pendientes) == pendientes > 2

\* the loop "for row2 in reversed(ruta)" from nodo_old upwards, in the
\* first part (lines 2294-2404) and in the second part (lines 2422-2534)
RECURSIVE Sube(_, _, _, _)
Sube(st, nodo_old, splitting, segunda) ==
    IF nodo_old = CT THEN st
    ELSE IF arbol.padre[nodo_old] \notin splitting
         THEN Sube(SubeTramo(st, nodo_old), arbol.padre[nodo_old],
                   splitting, segunda)
         ELSE IF ~segunda
         THEN [SubeTramo(st, nodo_old) EXCEPT
                   !.E[arbol.padre[nodo_old]] = @ - 1]
         ELSE IF EsperaMasRamas(st.E[arbol.padre[nodo_old]])
         THEN [SubeTramo(st, nodo_old) EXCEPT
                   !.E[arbol.padre[nodo_old]] = @ - 1, !.salir = 1]
         ELSE Sube([SubeTramo(st, nodo_old) EXCEPT
                        !.U = @ \cup {arbol.padre[nodo_old]}],
                   arbol.padre[nodo_old], splitting, segunda)

\* the loop of lines 2287-2404 from the i-th end node on
RECURSIVE Fase1(_, _, _, _)
Fase1(st, finales, splitting, i) ==
    IF i > Len(finales) THEN st
    ELSE Fase1(Sube(st, finales[i], splitting, FALSE), finales, splitting,
               i + 1)

\* lines 2282-2411
RecorreNodosFinales ==
    /\ lpc = "resuelve"
    /\ \E st \in {Fase1([P |-> P_0, L |-> P_Linea,
                         E |-> ReiniciaEnlaces(arbol, Enlaces_iter),
                         U |-> {}, salir |-> 0, a |-> 0, S |-> <<>>],
                        EndNodesResuelve(arbol),
                        ElementosDe(SplittingResuelve(arbol)), 1)} :
           /\ P_0' = st.P
           /\ P_Linea' = st.L
           /\ Enlaces_iter' = st.E
           /\ subidos' = st.S
    /\ nodos_utilizados' = {}
    /\ salir_bucle' = 0
    /\ lpc' = "fase2"
    /\ UNCHANGED <<arbol, df_AE_fecha, df_AS_fecha, filas_AE, filas_AS,
                   P_cups, CCH_Data_Error,
                   corrida, inyectado, primera>>
    /\ UNCHANGED varsFueraCarga

\* a walk that would leave its starting node unmarked
NoMarcaUsado(usados, row) == usados
\* lines 2537-2538: the starting node of the walk joins nodos_utilizados
MarcaUsado(usados, row) == usados \cup {row}

\* the loop "for row in splitting_nodes_sin_cups" of lines 2414-2538
RECURSIVE Fase2(_, _, _)
Fase2(st, splitting, i) ==
    IF i > Len(splitting) THEN st
    ELSE IF st.E[splitting[i]] = 1 /\ splitting[i] \notin st.U
         THEN Fase2([Sube([st EXCEPT !.a = 0], splitting[i],
                          ElementosDe(splitting), TRUE)
                        EXCEPT !.U = MarcaUsado(@, splitting[i])],
                    splitting, i + 1)
         ELSE Fase2(st, splitting, i + 1)

\* the test of the while of line 2412
SigueFase2(usados, splitting, salir) ==
    Cardinality(usados) < Len(splitting) /\ salir = 0

\* lines 2412-2543: one iteration of the while loop
PasadaSplitting ==
    /\ lpc = "fase2"
    /\ SigueFase2(nodos_utilizados, SplittingResuelve(arbol),
                  salir_bucle)
    /\ \E st \in {Fase2([P |-> P_0, L |-> P_Linea, E |-> Enlaces_iter,
                         U |-> nodos_utilizados, salir |-> salir_bucle,
                         a |-> 1, S |-> subidos],
                        SplittingResuelve(arbol), 1)} :
           /\ P_0' = st.P
           /\ P_Linea' = st.L
           /\ Enlaces_iter' = st.E
           /\ nodos_utilizados' = st.U
           /\ salir_bucle' = st.salir
           /\ subidos' = st.S
           /\ IF st.a = 1
              THEN CCH_Data_Error' = 4 /\ lpc' = "fin"
              ELSE UNCHANGED <<CCH_Data_Error, lpc>>
    /\ UNCHANGED <<arbol, df_AE_fecha, df_AS_fecha, filas_AE, filas_AS,
                   P_cups, corrida,
                   inyectado, primera>>
    /\ UNCHANGED varsFueraCarga

\* line 2545: the while has ended, resuelve_grafo returns
TerminaResuelve ==
    /\ lpc = "fase2"
    /\ ~SigueFase2(nodos_utilizados, SplittingResuelve(arbol),
                   salir_bucle)
    /\ lpc' = "fin"
    /\ UNCHANGED <<arbol, df_AE_fecha, df_AS_fecha, filas_AE, filas_AS,
                   P_0, P_cups, P_Linea,
                   Enlaces_iter, nodos_utilizados, salir_bucle,
                   CCH_Data_Error, corrida, inyectado, primera, subidos>>
    /\ UNCHANGED varsFueraCarga

\* the same hour is computed again on the graph the first computation left
Repite ==
    /\ lpc = "fin"
    /\ corrida = 1
    /\ primera' = [P |-> P_0, Pc |-> P_cups, L |-> P_Linea,
                   error |-> CCH_Data_Error]
    /\ corrida' = 2
    /\ lpc' = "add_cch"
    /\ UNCHANGED <<arbol, df_AE_fecha, df_AS_fecha, filas_AE, filas_AS,
                   P_0, P_cups, P_Linea,
                   Enlaces_iter, nodos_utilizados, salir_bucle,
                   CCH_Data_Error, inyectado, subidos>>
    /\ UNCHANGED varsFueraCarga

NextLoad ==
    \/ AddCchGrafo
    \/ RecorreNodosFinales
    \/ PasadaSplitting
    \/ TerminaResuelve
    \/ Repite

SpecLoad == InitLoad /\ [][NextLoad]_vars

\* add_cch_grafo on its own, on load tables with repeated customers
SpecCch == InitCch /\ [][AddCchGrafo]_vars

(***************************************************************************)
(* Properties of the load propagation                                      *)
(***************************************************************************)
RECURSIVE Bajo(_, _, _)
\* m is n or a descendant of n
Bajo(a, m, n) == m = n \/ (m # CT /\ Bajo(a, a.padre[m], n))

Subarbol(a, n) == {m \in a.nodos : Bajo(a, m, n)}

RECURSIVE SumaSobre(_, _)
SumaSobre(S, valor) ==
    IF S = {} THEN 0
    ELSE LET x == CHOOSE y \in S : TRUE
         IN valor[x] + SumaSobre(S \ {x}, valor)

Abs(x) == IF x < 0 THEN 0 - x ELSE x

\* the power of customer c in the hour: the imported energy less the
\* exported energy, on its own phase or a third on each phase
PotenciaCliente(c) ==
    [f \in Fases |->
        Reparto(TipoConexion(c), AmmFase(c), df_AE_fecha[c])[f]
        + Reparto(TipoConexion(c), AmmFase(c), 0 - df_AS_fecha[c])[f]]

\* C15: after add_cch_grafo the power of every phase of every node is the
\* sum of the powers of the customers attached to it, each customer
\* counted once whatever the number of its rows in the load tables.
C15_CadaClienteUnaVez ==
    lpc = "resuelve" =>
        \A n \in arbol.nodos : \A f \in Fases :
            inyectado[n][f] =
                SumaSobre(CupsDe(arbol, n), [c \in Cups |-> PotenciaCliente(c)[f]])

\* power injected at or below n, and losses of the spans strictly below n
InyectadoBajo(n, f) ==
    SumaSobre(Subarbol(arbol, n), [m \in NodosC |-> inyectado[m][f]])
PerdidasBajo(n, f) ==
    SumaSobre(Subarbol(arbol, n) \ {n},
              [m \in NodosC |-> arbol.par[m] * Abs(P_Linea[m][f])])

\* a virtual node that no span and no customer hangs from
HojasVirtualesMuertas ==
    {n \in arbol.nodos \ (Fisicos \cup {CT}) :
        Hijos(arbol, n) = {} /\ NumCups(arbol, n) = 0}

\* C1: after one load propagation that ends without convergence error,
\* the power accumulated at every non-customer node equals, phase by
\* phase, the power injected by the customers at or below the node plus
\* the losses of the spans strictly below it.
C1_Conservacion ==
    (lpc = "fin" /\ CCH_Data_Error # 4) =>
        \A n \in arbol.nodos : \A f \in Fases :
            P_0[n][f] = InyectadoBajo(n, f) + PerdidasBajo(n, f)

\* the same conservation on the trees in which every virtual node has a
\* span below it
C1_ConservacionSinHojasMuertas ==
    (lpc = "fin" /\ CCH_Data_Error # 4 /\ HojasVirtualesMuertas = {}) =>
        \A n \in arbol.nodos : \A f \in Fases :
            P_0[n][f] = InyectadoBajo(n, f) + PerdidasBajo(n, f)

\* what the walk leaves at node m for phase f when the loss of every span
\* below m has been given to m as perdidaDe says
AcumuladoEn(m, f, perdidaDe) ==
    inyectado[m][f]
    + SumaSobre(Hijos(arbol, m),
                [n \in NodosC |-> P_0[n][f] + arbol.par[n] * perdidaDe[n]])

\* the accumulator of every span holds the loss computed from the power of
\* its downstream node, negative when that power is negative
TramosConSigno ==
    \A n \in arbol.nodos \ {CT} : \A f \in Fases :
        P_Linea[n][f] =
            ConSigno(P_0[n][f],
                     PerdidaTramo(P_0[n][f], arbol.par[n], LongTramo(n)))

\* C16 as stated: the loss of a span is given to the span and to the
\* upstream node with the sign of the power of the downstream node:
\* subtracted from both when that power is negative, added to both
\* otherwise.
C16_SignoEnAmbos ==
    (lpc = "fin" /\ CCH_Data_Error # 4 /\ HojasVirtualesMuertas = {}) =>
        /\ TramosConSigno
        /\ \A m \in arbol.nodos : \A f \in Fases :
               P_0[m][f] =
                   AcumuladoEn(m, f, [n \in NodosC |-> P_Linea[n][f]])

\* C16 amended: the loss is subtracted from the accumulator of the span
\* when the power of the downstream node is negative and added to it
\* otherwise; the upstream node always receives the power of the
\* downstream node plus the loss.
C16_SignoSoloEnTramo ==
    (lpc = "fin" /\ CCH_Data_Error # 4 /\ HojasVirtualesMuertas = {}) =>
        /\ TramosConSigno
        /\ \A m \in arbol.nodos : \A f \in Fases :
               P_0[m][f] =
                   AcumuladoEn(m, f, [n \in NodosC |-> Abs(P_Linea[n][f])])

C16_Testigo ==
    /\ lpc = "fin"
    /\ CCH_Data_Error # 4
    /\ HojasVirtualesMuertas = {}
    /\ \E n \in arbol.nodos \cap Fisicos : \E f \in Fases :
           /\ P_0[n][f] < 0
           /\ P_Linea[n][f] < 0
           /\ P_0[arbol.padre[n]][f] > P_0[n][f]

\* C4: when resuelve_grafo returns, either every splitting node has been
\* resolved or the convergence error code 4 is set.
C4_ResueltosOError ==
    lpc = "fin" =>
        \/ CCH_Data_Error = 4
        \/ ElementosDe(SplittingNodesSinCups(arbol)) \subseteq
               nodos_utilizados

\* C5: a second load propagation for the same hour on the same graph
\* leaves the accumulators of the nodes, of the customers and of the
\* spans as the first one left them.
C5_Idempotente ==
    (lpc = "fin" /\ corrida = 2) =>
        /\ P_0 = primera.P
        /\ P_cups = primera.Pc
        /\ P_Linea = primera.L
        /\ CCH_Data_Error = primera.error

C5_Testigo ==
    /\ lpc = "fin"
    /\ corrida = 2
    /\ CCH_Data_Error = 3
    /\ \E f \in Fases : P_0[CT][f] > 0
    /\ \E n \in arbol.nodos : \E f \in Fases : P_Linea[n][f] # 0
    /\ \E f \in Fases : P_0[CT][f] = primera.P[CT][f]

(***************************************************************************)
(* main: the loops over the days of the range and the hours of a day       *)
(* (lines 2896-3458).                                                      *)
(***************************************************************************)
\* line 3013
AbortaHora(codigo) == codigo = 4

\* the code resuelve_grafo returns for the graph of the substation
CodigoResuelve == IF converge THEN 3 ELSE 4

\* lines 3355 and 3385: which values of save_ddbb write which tables
GuardaAgregados == save_ddbb \in {0, 1}
GuardaNodosTrazas == save_ddbb \in {0, 2}

\* lines 2904-2979: the while loop takes the next day; without load curves
\* for the day it goes on with the following day
EmpiezaDia(hay_cch) ==
    /\ hpc = "dia"
    /\ fecha_datetime <= MaxDias
    /\ fecha' = fecha_datetime
    /\ IF hay_cch
       THEN /\ hpc' = "hora"
            /\ colum_hora' = 1
            /\ dias_con_cch' = dias_con_cch \cup {fecha_datetime}
            /\ UNCHANGED <<fecha_datetime, dias_sin_cch>>
       ELSE /\ fecha_datetime' = fecha_datetime + 1
            /\ dias_sin_cch' = dias_sin_cch \cup {fecha_datetime}
            /\ UNCHANGED <<hpc, colum_hora, dias_con_cch>>
    /\ UNCHANGED <<converge, save_ddbb, horas_resueltas, horas_guardadas,
                   llamadas>>
    /\ UNCHANGED varsFueraHoras

\* lines 2987-3451: one hour.  conexion: pyodbc.connect succeeds;
\* ceros: result nodes for which the measured energy and the power of the
\* customers are all 0 (lines 3306-3310).
ResuelveHora(conexion, ceros) ==
    /\ hpc = "hora"
    /\ colum_hora <= MaxHoras
    /\ horas_resueltas' = horas_resueltas \cup {<<fecha, colum_hora>>}
    /\ llamadas' = Append(llamadas, <<fecha, colum_hora>>)
    /\ IF AbortaHora(CodigoResuelve)
       THEN \* break, then line 3453
            /\ hpc' = "dia"
            /\ fecha_datetime' = fecha_datetime + 1
            /\ UNCHANGED <<colum_hora, horas_guardadas>>
       ELSE IF save_ddbb \in {0, 1, 2} /\ ~conexion
       THEN \* raise of line 3036
            /\ hpc' = "excepcion"
            /\ UNCHANGED <<fecha_datetime, colum_hora, horas_guardadas>>
       ELSE /\ fecha_datetime' = fecha_datetime + ceros
            /\ horas_guardadas' =
                   IF \/ GuardaNodosTrazas
                      \/ GuardaAgregados /\ ceros < MaxNodosResultado
                   THEN horas_guardadas \cup {<<fecha, colum_hora>>}
                   ELSE horas_guardadas
            /\ colum_hora' = colum_hora + 1
            /\ UNCHANGED hpc
    /\ UNCHANGED <<fecha, converge, save_ddbb, dias_con_cch, dias_sin_cch>>
    /\ UNCHANGED varsFueraHoras

\* the for loop of line 2987 is exhausted: line 3453
FinDia ==
    /\ hpc = "hora"
    /\ colum_hora > MaxHoras
    /\ hpc' = "dia"
    /\ fecha_datetime' = fecha_datetime + 1
    /\ UNCHANGED <<fecha, colum_hora, converge, save_ddbb, dias_con_cch,
                   horas_resueltas, horas_guardadas, dias_sin_cch, llamadas>>
    /\ UNCHANGED varsFueraHoras

\* the while loop of line 2904 ends: lines 3455-3458
FinRango ==
    /\ hpc = "dia"
    /\ fecha_datetime > MaxDias
    /\ hpc' = "fin"
    /\ UNCHANGED <<fecha_datetime, fecha, colum_hora, converge, save_ddbb,
                   dias_con_cch, horas_resueltas, horas_guardadas,
                   dias_sin_cch, llamadas>>
    /\ UNCHANGED varsFueraHoras

InitHoras ==
    /\ hpc = "dia"
    /\ fecha_datetime = 1
    /\ fecha = 1
    /\ colum_hora = 0
    /\ converge \in BOOLEAN
    /\ save_ddbb \in 0..3
    /\ dias_con_cch = {}
    /\ horas_resueltas = {}
    /\ horas_guardadas = {}
    /\ dias_sin_cch = {}
    /\ llamadas = <<>>
    /\ graph_data_error \in 0..2
    /\ MainEnReposo
    /\ GrafoEnReposo
    /\ CargaEnReposo
    /\ DistEnReposo
    /\ CupsEnReposo
    /\ CableEnReposo
    /\ DriverEnReposo

NextHoras ==
    \/ \E hay_cch \in BOOLEAN : EmpiezaDia(hay_cch)
    \/ \E conexion \in BOOLEAN, ceros \in 0..MaxNodosResultado :
           ResuelveHora(conexion, ceros)
    \/ FinDia
    \/ FinRango

SpecHoras == InitHoras /\ [][NextHoras]_vars

\* C11: a convergence failure in one hour skips only that hour: nothing
\* is stored for it, and every other hour of the days of the range that
\* have load curves is still resolved.
C11_SoloSaltaLaHora ==
    hpc = "fin" =>
        /\ \A d \in dias_con_cch : \A h \in 1..MaxHoras :
               <<d, h>> \in horas_resueltas
        /\ ~converge => horas_guardadas = {}

\* the same for the runs in which no result node has all its values 0:
\* every hour of every day with load curves is resolved when the graph
\* converges
C11_ConvergeResuelveTodo ==
    (hpc = "fin" /\ converge /\ fecha_datetime = MaxDias + 1) =>
        \A d \in dias_con_cch : \A h \in 1..MaxHoras :
            <<d, h>> \in horas_resueltas

(***************************************************************************)
(* create_graph_dataframes: the table of the node nearest to each customer *)
(* (lines 1029-1088).  Transformers and feeders are numbered from 1; the   *)
(* feeder of a node row carries the number of its transformer.  TRAFO 0    *)
(* stands for a transformer name of fewer than two characters.             *)
(***************************************************************************)
Trafos == 1..MaxTrafos
\* the nodes lie along one street and the customers on it or beside it
PosNodos == (0..MaxCoord) \X {0}
PosCups == (0..MaxCoord) \X {0, 1}

\* ID_NODO of the rows of df_Nodos_Trazas: the substation or a node
IdsNodo == {CT} \cup {n \in Fisicos : n <= CT_LBT + MaxFilasNodos}

\* ID_Nodo_Cercano '0' and '1' of lines 1071, 1077 and 1083
Marcador0 == 0 - 2
Marcador1 == 0 - 1

\* the square of the distance of line 1044
Distancia2(p, q) ==
    (p[1] - q[1]) * (p[1] - q[1]) + (p[2] - q[2]) * (p[2] - q[2])

\* the conditions of lines 1048 and 1056 other than the distance
CualquierNodo(row, row2) == TRUE
NodoValido(row, row2) == row.TRAFO = row2.TRAFO /\ row2.ID_NODO # CT

\* the loop of lines 1043-1062 from row i of df_Nodos_Trazas on; m is the
\* row of df_matr_dist, m.ok is nodo_ok and m.Distancia2 < 0 stands for
\* the very large first value of distancia
RECURSIVE NodoCercano(_, _, _, _)
NodoCercano(row, nodos, m, i) ==
    IF i > Len(nodos) THEN m
    ELSE LET row2 == nodos[i]
             distancia_prov == Distancia2(row.pos, row2.pos)
         IN IF /\ m.Distancia2 < 0 \/ distancia_prov < m.Distancia2
               /\ NodoValido(row, row2)
            THEN NodoCercano(row, nodos,
                     [ID_Nodo_Cercano |-> row2.ID_NODO,
                      TR_NODO |-> row2.TRAFO,
                      Distancia2 |-> distancia_prov,
                      ok |-> 1], i + 1)
            ELSE NodoCercano(row, nodos, m, i + 1)

\* lines 1068-1083: the row of a customer for which no node was found
FilaSinNodo(row, lista) ==
    [ID_Nodo_Cercano |->
         IF \E e \in lista : e[1] = row.TRAFO
         THEN IF \E e \in lista : e[2] = row.LBT_ID
              THEN Marcador1 ELSE Marcador0
         ELSE IF row.TRAFO # 0 THEN Marcador1 ELSE Marcador0,
     TR_NODO |-> row.TRAFO,
     Distancia2 |-> 0,
     ok |-> 0]

\* line 1081: a transformer that no feeder names joins the feeder list
ListaTrasFila(row, lista) ==
    IF (\E e \in lista : e[1] = row.TRAFO) \/ row.TRAFO = 0 THEN lista
    ELSE lista \cup {<<row.TRAFO, row.LBT_ID>>}

\* lines 1029-1088 for one row of the customer table
FilaMatrizDist(row) ==
    /\ dpc = "cups"
    /\ filas_dist < MaxCupsTabla
    /\ filas_dist' = filas_dist + 1
    /\ fila_cups' = row
    /\ IF row.CTE_GISS > 0
       THEN /\ df_matr_dist_fila' =
                   [ID_Nodo_Cercano |-> CT, TR_NODO |-> row.TRAFO,
                    Distancia2 |-> 0, ok |-> 1]
            /\ UNCHANGED <<LBT_ID_list, graph_data_error>>
       ELSE \E m \in {NodoCercano(row, df_Nodos_Trazas,
                          [ID_Nodo_Cercano |-> Marcador0, TR_NODO |-> 0,
                           Distancia2 |-> 0 - 1, ok |-> 0], 1)} :
            LET error_lbt ==
                    IF m.ok = 1 /\ \E e \in LBT_ID_list : e[2] = row.LBT_ID
                    THEN 1 ELSE 0
                nivel1 == IF error_lbt = 0
                          THEN SubeNivel(graph_data_error, 1)
                          ELSE graph_data_error
            IN IF m.ok = 0
               THEN /\ df_matr_dist_fila' = FilaSinNodo(row, LBT_ID_list)
                    /\ LBT_ID_list' = ListaTrasFila(row, LBT_ID_list)
                    /\ graph_data_error' = SubeNivel(nivel1, 2)
               ELSE /\ df_matr_dist_fila' = m
                    /\ graph_data_error' = nivel1
                    /\ UNCHANGED LBT_ID_list
    /\ UNCHANGED <<dpc, df_Nodos_Trazas, tabla_sint, trazas_sint>>
    /\ UNCHANGED varsFueraDist

\* the customer table is exhausted
FinMatrizDist ==
    /\ dpc = "cups"
    /\ filas_dist >= 1
    /\ dpc' = "fin"
    /\ UNCHANGED <<df_Nodos_Trazas, LBT_ID_list, fila_cups,
                   df_matr_dist_fila, filas_dist, graph_data_error,
                   tabla_sint, trazas_sint>>
    /\ UNCHANGED varsFueraDist

FilasNodos ==
    [ID_NODO : IdsNodo, TRAFO : Trafos, pos : PosNodos]

FilasCups ==
    [TRAFO : {0} \cup Trafos, LBT_ID : Trafos, pos : PosCups,
     CTE_GISS : {0, 1}]

InitDist ==
    /\ dpc = "cups"
    \* without nodes and spans lines 932-994 add a node for each customer
    /\ \E k \in 1..MaxFilasNodos :
           df_Nodos_Trazas \in [1..k -> FilasNodos]
    /\ LBT_ID_list =
           {<<df_Nodos_Trazas[i].TRAFO, df_Nodos_Trazas[i].TRAFO>> :
                i \in 1..Len(df_Nodos_Trazas)}
    /\ fila_cups = <<>>
    /\ df_matr_dist_fila = <<>>
    /\ filas_dist = 0
    /\ tabla_sint = <<>>
    /\ trazas_sint = <<>>
    /\ graph_data_error \in {0, 3}
    /\ MainEnReposo
    /\ GrafoEnReposo
    /\ CargaEnReposo
    /\ HorasEnReposo
    /\ CupsEnReposo
    /\ CableEnReposo
    /\ DriverEnReposo

NextDist ==
    \/ \E row \in FilasCups : FilaMatrizDist(row)
    \/ FinMatrizDist

SpecDist == InitDist /\ [][NextDist]_vars

\* the rows of df_Nodos_Trazas a customer row can be assigned to
NodosDelTrafo(row) ==
    {i \in 1..Len(df_Nodos_Trazas) :
         /\ df_Nodos_Trazas[i].TRAFO = row.TRAFO
         /\ df_Nodos_Trazas[i].ID_NODO # CT}

\* C20: a customer that is not a head meter and has a node of its
\* transformer is assigned a node of that transformer other than the
\* substation with no such node strictly closer; a customer with no node
\* of its transformer gets a placeholder and the level is at least 2.
C20_NodoMasCercano ==
    (filas_dist >= 1 /\ fila_cups.CTE_GISS = 0) =>
        IF NodosDelTrafo(fila_cups) # {}
        THEN /\ \E i \in NodosDelTrafo(fila_cups) :
                    /\ df_Nodos_Trazas[i].ID_NODO =
                           df_matr_dist_fila.ID_Nodo_Cercano
                    /\ df_matr_dist_fila.Distancia2 =
                           Distancia2(fila_cups.pos, df_Nodos_Trazas[i].pos)
             /\ df_matr_dist_fila.TR_NODO = fila_cups.TRAFO
             /\ df_matr_dist_fila.ID_Nodo_Cercano # CT
             /\ \A i \in NodosDelTrafo(fila_cups) :
                    Distancia2(fila_cups.pos, df_Nodos_Trazas[i].pos)
                        >= df_matr_dist_fila.Distancia2
        ELSE /\ df_matr_dist_fila.ID_Nodo_Cercano \in {Marcador0, Marcador1}
             /\ graph_data_error >= 2

C20_Testigo ==
    /\ filas_dist >= 1
    /\ fila_cups.CTE_GISS = 0
    /\ NodosDelTrafo(fila_cups) # {}
    /\ \E i \in 1..Len(df_Nodos_Trazas) :
           /\ i \notin NodosDelTrafo(fila_cups)
           /\ Distancia2(fila_cups.pos, df_Nodos_Trazas[i].pos)
                  < df_matr_dist_fila.Distancia2

(***************************************************************************)
(* create_graph_dataframes, lines 932-994: a substation described only by  *)
(* its customers gets a span from the substation to a new node for each    *)
(* customer that is not a head meter.                                      *)
(***************************************************************************)
\* cups_agregado_CT.CUPS_X[0], CUPS_Y[0] (lines 949-950): the coordinates of
\* the first head meter, <<>> when the table has none and the lookup raises
CoordCT(tabla) ==
    LET giss == SelectSeq(tabla, LAMBDA r : r.CTE_GISS > 0)
    IN IF giss = <<>> THEN <<>> ELSE giss[1].pos

\* lines 946-976: the coordinates given to the new node
CoordNodoSint(row, ct) ==
    IF ct = <<>> THEN <<0, 0>>
    ELSE IF row.pos[1] > 0 /\ row.pos[2] > 0 THEN row.pos
    ELSE IF ct[1] > 0 /\ ct[2] > 0 THEN ct
    ELSE <<0, 0>>

\* lines 978-988: the row appended to df_traza_ct; Longitud is squared
TrazaSint(row, ct, n) ==
    LET c == CoordNodoSint(row, ct)
        o == IF ct = <<>> THEN <<0, 0>> ELSE ct
    IN [NODO_ORIGEN |-> CT, NODO_DESTINO |-> n + 1,
        TRAFO |-> row.TRAFO, LBT_ID |-> row.LBT_ID, pos |-> c,
        Longitud2 |-> IF c[1] > 0 /\ c[2] > 0 /\ o[1] > 0 /\ o[2] > 0
                      THEN Distancia2(o, c) ELSE 0]

\* lines 939-994 for the next row of df_ct_cups_ct
SintetizaFila ==
    /\ dpc = "sintetiza"
    /\ filas_dist < Len(tabla_sint)
    /\ filas_dist' = filas_dist + 1
    /\ LET row == tabla_sint[filas_dist + 1]
           t == TrazaSint(row, CoordCT(tabla_sint), Len(trazas_sint))
       IN IF row.CTE_GISS > 0
          THEN UNCHANGED <<trazas_sint, df_Nodos_Trazas, LBT_ID_list,
                           graph_data_error>>
          ELSE /\ trazas_sint' = Append(trazas_sint, t)
               /\ df_Nodos_Trazas' = Append(df_Nodos_Trazas,
                      [ID_NODO |-> t.NODO_DESTINO, TRAFO |-> row.TRAFO,
                       pos |-> t.pos])
               /\ LBT_ID_list' = LBT_ID_list \cup {<<row.TRAFO, row.LBT_ID>>}
               /\ graph_data_error' = SubeNivel(graph_data_error, 2)
    /\ UNCHANGED <<dpc, fila_cups, df_matr_dist_fila, tabla_sint>>
    /\ UNCHANGED varsFueraDist

\* the loop of line 939 is over: the distance table comes next
FinSintetiza ==
    /\ dpc = "sintetiza"
    /\ filas_dist = Len(tabla_sint)
    /\ dpc' = "sintetizado"
    /\ UNCHANGED <<df_Nodos_Trazas, LBT_ID_list, fila_cups,
                   df_matr_dist_fila, filas_dist, graph_data_error,
                   tabla_sint, trazas_sint>>
    /\ UNCHANGED varsFueraDist

\* len(df_Nodos_Trazas) == 0 and len(df_ct_cups_ct) > 0 (lines 933, 937)
InitSint ==
    /\ dpc = "sintetiza"
    /\ df_Nodos_Trazas = <<>>
    /\ LBT_ID_list = {}
    /\ fila_cups = <<>>
    /\ df_matr_dist_fila = <<>>
    /\ filas_dist = 0
    /\ \E m \in 1..MaxCupsTabla : tabla_sint \in [1..m -> FilasCups]
    /\ trazas_sint = <<>>
    /\ graph_data_error \in {0, 1}
    /\ MainEnReposo
    /\ GrafoEnReposo
    /\ CargaEnReposo
    /\ HorasEnReposo
    /\ CupsEnReposo
    /\ CableEnReposo
    /\ DriverEnReposo

NextSint ==
    \/ SintetizaFila
    \/ FinSintetiza

SpecSint == InitSint /\ [][NextSint]_vars

\* the customers of the table that are not head meters, in table order
SinCabecera(tabla) == SelectSeq(tabla, LAMBDA r : r.CTE_GISS = 0)

\* C21: for a substation with customers and neither nodes nor spans, the
\* spans added are one for each customer that is not a head meter, in the
\* order of the table, each from the substation to a new node, the new nodes
\* are pairwise distinct, and the level is at least 2.
C21_UnaTrazaPorCliente ==
    dpc = "sintetizado" =>
        /\ Len(trazas_sint) = Len(SinCabecera(tabla_sint))
        /\ \A i \in 1..Len(trazas_sint) :
               /\ trazas_sint[i].NODO_ORIGEN = CT
               /\ trazas_sint[i].TRAFO = SinCabecera(tabla_sint)[i].TRAFO
               /\ trazas_sint[i].LBT_ID = SinCabecera(tabla_sint)[i].LBT_ID
        /\ \A i, j \in 1..Len(trazas_sint) :
               i # j => trazas_sint[i].NODO_DESTINO # trazas_sint[j].NODO_DESTINO
        /\ graph_data_error >= 2

(***************************************************************************)
(* add_cups_grafo (lines 1714-1989), the node lists of main (2786-2878)    *)
(* and the routes resuelve_grafo asks for (line 2288).                     *)
(*                                                                         *)
(* The graph is the tree genera_grafo leaves for one transformer and one   *)
(* feeder.  A node named <n>_230 is numbered after the 400 V nodes; the    *)
(* 230 V node of the transformer is TR_230.  A link maps to the sequence   *)
(* of its parallel spans: span 1 is the edge of key 0.                     *)
(***************************************************************************)
\* the name of a node followed by '_230' (lines 1838, 1868, 1896)
Mas230(n) == n + CT_LBT2 + 1

\* str(n).replace('400', '230') (lines 1845, 1879, 1918): only the name
\* of the 400 V node of the transformer holds '400'
Cambia400(n) == IF n = TR_400 THEN TR_230 ELSE n

Nodos400 == {CT, CT_TR, TR_400, CT_LBT} \cup Fisicos
Nodos230 == {TR_230} \cup {Mas230(n) : n \in {CT_LBT} \cup Fisicos}
NodosGc == Nodos400 \cup Nodos230

\* the 400 V node a '_230' node was copied from
Original(n) ==
    IF n = TR_230 THEN TR_400
    ELSE IF n > CT_LBT2 THEN n - (CT_LBT2 + 1) ELSE n

\* G.nodes[n]['Tipo_Nodo']: a '_230' node takes the type of its original
TipoNodoC(n) ==
    IF n = CT THEN "CT"
    ELSE IF Original(n) \in {CT_TR, TR_400, CT_LBT} THEN "CT_Virtual"
    ELSE "NODO"

\* QBT_TENSION of a customer row and the cable types of the spans
Tensiones == {230, 400}
Cables == {1, 2}

\* df_ct_cups_ct and df_matr_dist have no node for a customer not yet read
SinNodo == 0 - 3

Par(u, v) == IF u < v THEN <<u, v>> ELSE <<v, u>>
HayEnlaceC(E, u, v) == Par(u, v) \in DOMAIN E
VecinosC(E, n) == {m \in NodosGc : m # n /\ HayEnlaceC(E, n, m)}

\* G.add_edge(u, v, 0, ...): the edge of key 0 of the link is written
PonEnlaceC(E, u, v, vano) ==
    IF HayEnlaceC(E, u, v)
    THEN [E EXCEPT ![Par(u, v)] = [@ EXCEPT ![1] = vano]]
    ELSE E @@ (Par(u, v) :> <<vano>>)

\* Long and CABLE of a new '_230' edge: those of the edge of key 0 of the
\* 400 V link (lines 1846, 1848, 1880, 1897, 1920, 1934)
VanoSinLongitud(E, u, v) ==
    [Long |-> 0, CABLE |-> E[Par(u, v)][1].CABLE]
VanoCopiado(E, u, v) ==
    [Long |-> E[Par(u, v)][1].Long, CABLE |-> E[Par(u, v)][1].CABLE]

\* enlaces_iter_orig of lines 1826-1831: the neighbours that are not
\* customers (customers are not nodes of Gc_nodos)
EnlacesIterOrig(E, n) == Cardinality(VecinosC(E, n))

\* nx.shortest_path(G, id_ct, n) as a sequence, <<>> when there is none:
\* the routes grow one link at a time until one of them ends in n
RECURSIVE CaminoC(_, _, _, _)
CaminoC(E, caminos, vistos, destino) ==
    LET llegan == {c \in caminos : c[Len(c)] = destino}
        sigs == {Append(c, m) : c \in caminos,
                                m \in NodosGc \ vistos}
        nuevos == {c \in sigs : HayEnlaceC(E, c[Len(c) - 1], c[Len(c)])}
    IN IF llegan # {} THEN CHOOSE c \in llegan : TRUE
       ELSE IF nuevos = {} THEN <<>>
       ELSE CaminoC(E, nuevos,
                    vistos \cup {c[Len(c)] : c \in nuevos}, destino)

ShortestPath(E, n) == CaminoC(E, {<<CT>>}, {CT}, n)
HayRutaC(E, n) == ShortestPath(E, n) # <<>>

\* lines 1837-1858: a 230 V customer on the feeder node, first of its kind
Sombra230Virtual(st, arqueta) ==
    LET ruta == SubSeq(ShortestPath(st.E, arqueta), 1,
                       Len(ShortestPath(st.E, arqueta)) - 1)
        ult == ruta[Len(ruta)]
        penult == ruta[Len(ruta) - 1]
        N1 == st.N \cup {Mas230(arqueta), TR_230}
        E1 == IF HayEnlaceC(st.E, Cambia400(ult), Mas230(arqueta)) THEN st.E
              ELSE PonEnlaceC(st.E, Cambia400(ult), Mas230(arqueta),
                              VanoCopiado(st.E, ult, arqueta))
        E2 == IF HayEnlaceC(E1, penult, Cambia400(ult)) THEN E1
              ELSE PonEnlaceC(E1, penult, Cambia400(ult),
                              VanoCopiado(E1, penult, ult))
    IN [N |-> N1, E |-> E2,
        Eo |-> [n \in NodosGc |->
                  IF n \in {Cambia400(ult), Mas230(arqueta), penult}
                  THEN EnlacesIterOrig(E2, n) ELSE st.Eo[n]]]

\* the loop of lines 1873-1946 from the i-th node of the reversed route on
RECURSIVE Sombra230Ruta(_, _, _, _, _)
Sombra230Ruta(st, ruta_rev, i, nodo_old, localiza_ct) ==
    IF i > Len(ruta_rev) THEN st
    ELSE LET row2 == ruta_rev[i]
             vano == VanoCopiado(st.E, row2, nodo_old)
         IN
         IF Mas230(row2) \notin st.N /\ row2 # TR_400
         THEN LET nuevo == IF localiza_ct = 1 THEN Cambia400(row2)
                           ELSE Mas230(row2)
                  Ea == PonEnlaceC(st.E, nuevo, Mas230(nodo_old), vano)
                  \* line 1881 names the node of the transformer; the
                  \* condition of line 1875 keeps row2 = TR_400 out
                  Eb == IF localiza_ct = 1
                        THEN PonEnlaceC(Ea, CT_TR, nuevo, vano) ELSE Ea
                  Eoa == [n \in NodosGc |->
                            IF n = Mas230(nodo_old)
                               \/ (localiza_ct = 1 /\ n \in {nuevo, CT_TR})
                            THEN EnlacesIterOrig(Eb, n) ELSE st.Eo[n]]
                  st1 == [N |-> st.N \cup {nuevo}, E |-> Eb, Eo |-> Eoa]
              IN IF TipoNodoC(row2) = "CT_Virtual" /\ localiza_ct = 1
                 THEN st1
                 ELSE Sombra230Ruta(st1, ruta_rev, i + 1, row2,
                          IF TipoNodoC(row2) = "CT_Virtual" THEN 1
                          ELSE localiza_ct)
         ELSE LET otro == IF localiza_ct = 1 THEN Cambia400(row2)
                          ELSE Mas230(row2)
                  Ea == PonEnlaceC(st.E, otro, Mas230(nodo_old), vano)
              IN [N |-> st.N \cup {otro}, E |-> Ea,
                  Eo |-> [n \in NodosGc |->
                            IF n \in {Mas230(nodo_old), otro}
                            THEN EnlacesIterOrig(Ea, n) ELSE st.Eo[n]]]

\* lines 1867-1946: a 230 V customer on a node of a span, first of its kind
Sombra230Fisico(st, arqueta) ==
    LET camino == ShortestPath(st.E, arqueta)
        ruta == SubSeq(camino, 1, Len(camino) - 1)
    IN Sombra230Ruta([st EXCEPT !.N = @ \cup {Mas230(arqueta)}],
                     Rev(ruta), 1, arqueta, 0)

\* lines 1834-1948: the graph after the duplication a 230 V customer needs
Duplica230(st, arqueta) ==
    IF Mas230(arqueta) \in st.N THEN st
    ELSE IF TipoNodoC(arqueta) = "CT_Virtual"
    THEN Sombra230Virtual(st, arqueta)
    ELSE Sombra230Fisico(st, arqueta)

\* the node of the graph a row of the customer table names (1724, 1794-1798)
Arqueta(row) ==
    IF row.ID_Nodo_Cercano = CT THEN CT_TR
    ELSE IF row.ID_Nodo_Cercano = Marcador1 THEN CT_LBT
    ELSE row.ID_Nodo_Cercano

\* lines 1717-1988 for the next row of df_ct_cups_ct
AddCupsFila ==
    /\ cpc = "add_cups"
    /\ fila_c < Len(tabla_cups)
    /\ fila_c' = fila_c + 1
    /\ LET row == tabla_cups[fila_c + 1]
           st == [N |-> Gc_nodos, E |-> Gc_enlaces, Eo |-> Gc_Enlaces_orig]
       IN IF row.ID_Nodo_Cercano = CT
          THEN /\ cups_nodo' = [cups_nodo EXCEPT ![fila_c + 1] = CT_TR]
               /\ UNCHANGED <<Gc_nodos, Gc_enlaces, Gc_Enlaces_orig>>
          ELSE IF row.ID_Nodo_Cercano = Marcador0
          THEN UNCHANGED <<cups_nodo, Gc_nodos, Gc_enlaces, Gc_Enlaces_orig>>
          ELSE IF row.QBT_TENSION >= 200 /\ row.QBT_TENSION < 350
          THEN \E r \in {Duplica230(st, Arqueta(row))} :
               /\ Gc_nodos' = r.N
               /\ Gc_enlaces' = r.E
               /\ Gc_Enlaces_orig' = r.Eo
               /\ cups_nodo' =
                      [cups_nodo EXCEPT ![fila_c + 1] = Mas230(Arqueta(row))]
          ELSE /\ cups_nodo' = [cups_nodo EXCEPT ![fila_c + 1] = Arqueta(row)]
               /\ UNCHANGED <<Gc_nodos, Gc_enlaces, Gc_Enlaces_orig>>
    /\ UNCHANGED <<cpc, tabla_cups, cups_en_log, end_nodes_c>>
    /\ UNCHANGED varsFueraCups

\* lines 2813-2867: nodes that are neither CT nor CT_Virtual and have one
\* neighbour that is not a customer, with customers or without them
EndNodesC(N, E) ==
    {n \in N : TipoNodoC(n) = "NODO" /\ Cardinality(VecinosC(E, n)) = 1}

\* main, lines 2786-2878 and 3003: the lists resuelve_grafo is called with
CalculaListasC ==
    /\ cpc = "add_cups"
    /\ fila_c = Len(tabla_cups)
    /\ end_nodes_c' = EndNodesC(Gc_nodos, Gc_enlaces)
    /\ cpc' = "resuelve"
    /\ UNCHANGED <<Gc_nodos, Gc_enlaces, Gc_Enlaces_orig, tabla_cups, fila_c,
                   cups_nodo, cups_en_log>>
    /\ UNCHANGED varsFueraCups

\* resuelve_grafo, lines 2287-2289: the route of every end node; nothing
\* catches the exception networkx raises when there is none
RutasResuelve ==
    /\ cpc = "resuelve"
    /\ cpc' = IF \A n \in end_nodes_c : HayRutaC(Gc_enlaces, n)
              THEN "fin" ELSE "excepcion"
    /\ UNCHANGED <<Gc_nodos, Gc_enlaces, Gc_Enlaces_orig, tabla_cups, fila_c,
                   cups_nodo, cups_en_log, end_nodes_c>>
    /\ UNCHANGED varsFueraCups

\* the links genera_grafo leaves: Long 0 and the cable of the first span on
\* the virtual links (lines 1229-1298), the spans of the table on the others
EnlacesDeArbol(k, hay230, pf, cab, paralelos) ==
    [e \in {Par(CT, CT_TR), Par(CT_TR, TR_400), Par(TR_400, CT_LBT)}
           \cup (IF hay230 THEN {Par(CT_TR, TR_230)} ELSE {})
           \cup {Par(pf[n], n) : n \in {m \in Fisicos : m <= CT_LBT + k}}
     |-> IF e[2] \in Fisicos /\ e[2] <= CT_LBT + k /\ e[1] = pf[e[2]]
         THEN [i \in 1..(IF e[2] = CT_LBT + 1 THEN paralelos ELSE 1) |->
                  [Long |-> e[2] - CT_LBT + i - 1,
                   CABLE |-> IF i = 1 THEN cab[e[2]]
                             ELSE CHOOSE c \in Cables : c # cab[e[2]]]]
         ELSE <<[Long |-> 0, CABLE |-> cab[CT_LBT + 1]]>>]

\* the rows of df_ct_cups_ct with ID_Nodo_Cercano of df_matr_dist
FilasTablaCups(k) ==
    [ID_Nodo_Cercano : {CT, Marcador0, Marcador1}
                           \cup {n \in Fisicos : n <= CT_LBT + k},
     QBT_TENSION : Tensiones]

InitCups ==
    /\ cpc = "add_cups"
    /\ \E k \in 1..MaxNodosArbol, hay230 \in BOOLEAN,
          paralelos \in 1..MaxParalelos :
       \E pf \in [Fisicos -> {CT_LBT} \cup Fisicos], cab \in [Fisicos -> Cables] :
           /\ \A n \in Fisicos :
                  IF n <= CT_LBT + k
                  THEN pf[n] = CT_LBT \/ pf[n] < n
                  ELSE pf[n] = CT_LBT /\ cab[n] = 1
           /\ Gc_nodos = {CT, CT_TR, TR_400, CT_LBT}
                            \cup {n \in Fisicos : n <= CT_LBT + k}
                            \cup (IF hay230 THEN {TR_230} ELSE {})
           /\ Gc_enlaces = EnlacesDeArbol(k, hay230, pf, cab, paralelos)
           /\ \E m \in 1..MaxCups :
                  tabla_cups \in [1..m -> FilasTablaCups(k)]
    /\ Gc_Enlaces_orig =
           [n \in NodosGc |-> EnlacesIterOrig(Gc_enlaces, n)]
    /\ fila_c = 0
    /\ cups_nodo = [i \in 1..Len(tabla_cups) |-> SinNodo]
    \* line 1069 named the customers for which no node was found
    /\ cups_en_log = {i \in 1..Len(tabla_cups) :
                          tabla_cups[i].ID_Nodo_Cercano
                              \in {Marcador0, Marcador1}}
    /\ end_nodes_c = {}
    \* the customers are added to a graph that was built without error
    /\ graph_data_error = 0
    /\ MainEnReposo
    /\ GrafoEnReposo
    /\ CargaEnReposo
    /\ HorasEnReposo
    /\ DistEnReposo
    /\ CableEnReposo
    /\ DriverEnReposo

NextCups ==
    \/ AddCupsFila
    \/ CalculaListasC
    \/ RutasResuelve

SpecCups == InitCups /\ [][NextCups]_vars

\* the customers of 230 V that are not head meters and were attached
Cups230 ==
    {i \in 1..fila_c :
         /\ tabla_cups[i].QBT_TENSION = 230
         /\ tabla_cups[i].ID_Nodo_Cercano \notin {CT, Marcador0}}

\* the nodes joined to n by links that do not pass the transformer CT_TR
RECURSIVE BajoElTrafo2(_, _, _)
BajoElTrafo2(E, vistos, frontera) ==
    IF frontera = {} THEN vistos
    ELSE LET nuevos == (UNION {VecinosC(E, n) : n \in frontera})
                           \ (vistos \cup {CT_TR})
         IN BajoElTrafo2(E, vistos \cup nuevos, nuevos)
BajoElTrafo(E, n) == BajoElTrafo2(E, {n}, {n})

\* C18: every link between '_230' nodes, and the link of TR_230 with the
\* transformer, has in its span the Long and the CABLE of the span of key 0
\* of the 400 V link it duplicates; a 230 V customer hangs from a '_230'
\* node, and every node between that node and the transformer, the only
\* nodes on which its power is accumulated, is a '_230' node.
C18_SombraIgualYSeparada ==
    /\ \A e \in DOMAIN Gc_enlaces :
           (e[1] \in Nodos230 \/ e[2] \in Nodos230) =>
               /\ HayEnlaceC(Gc_enlaces, Original(e[1]), Original(e[2]))
               /\ Gc_enlaces[e][1].Long =
                      Gc_enlaces[Par(Original(e[1]), Original(e[2]))][1].Long
               /\ Gc_enlaces[e][1].CABLE =
                      Gc_enlaces[Par(Original(e[1]), Original(e[2]))][1].CABLE
               /\ Len(Gc_enlaces[e]) = 1
    /\ \A i \in Cups230 :
           /\ cups_nodo[i] \in Nodos230 \cap Gc_nodos
           /\ BajoElTrafo(Gc_enlaces, cups_nodo[i]) \subseteq Nodos230

C18_Testigo ==
    /\ cpc = "fin"
    /\ \E i \in Cups230 :
           /\ Original(cups_nodo[i]) \in Fisicos
           \* substation, transformer, TR_230, feeder and two nodes
           /\ Len(ShortestPath(Gc_enlaces, cups_nodo[i])) >= 6
           /\ \E e \in DOMAIN Gc_enlaces :
                  /\ e[2] \in Nodos230
                  /\ Gc_enlaces[e][1].Long > 1

MaxNombres == 3
MaxVanos == 2

\* the names a CABLE_ORIG cell may hold; NombreVacio is 'NAN', what an
\* empty cell becomes (line 584)
Nombres == 1..MaxNombres
NombreVacio == 1

\* len(str(row.CABLE_ORIG)): the text of an empty cell has three characters,
\* the names of real cables have more
LargoNombre(c) == IF c = NombreVacio THEN 3 ELSE 4 + c

\* what a Python function without a return statement gives to its caller
Ninguno == 0 - 1

\* Conductor.__init__: the default record (Rdc in thousandths of ohm/km)
ConductorPorDefecto ==
    [NameConductor |-> 0, Rdc |-> 200, Do |-> 10, Di |-> 1, S |-> 10,
     T0 |-> 20]

\* the record cable_library.xml holds for a name
RegistroXml(c) == [Rdc |-> 100 + c, Do |-> 20 + c, Di |-> 2, S |-> 50 + c,
                   T0 |-> 25]

\* fload_library: the fields of the conductor after the loop over the
\* catalog; a name that is not there leaves them as they were
CargaRegistro(cond, nombre, cat) ==
    IF nombre \in cat
    THEN [NameConductor |-> nombre, Rdc |-> RegistroXml(nombre).Rdc,
          Do |-> RegistroXml(nombre).Do, Di |-> RegistroXml(nombre).Di,
          S |-> RegistroXml(nombre).S, T0 |-> RegistroXml(nombre).T0]
    ELSE [cond EXCEPT !.NameConductor = nombre]

\* fload_library: the value of the call; the function ends after the loop
\* without a return statement, found or not
fload_library(nombre, cat) == Ninguno

\* drop_duplicates(subset, keep='first') over the rows chosen by ok, as the
\* sequence of the original names in the order of the table
RECURSIVE SinDuplicados(_, _, _, _)
SinDuplicados(tabla, i, ok(_), vistos) ==
    IF i > Len(tabla) THEN <<>>
    ELSE IF ok(tabla[i]) /\ <<tabla[i].CABLE_ORIG, tabla[i].TIPO_UBICACION>>
                               \notin vistos
         THEN <<tabla[i].CABLE_ORIG>> \o
              SinDuplicados(tabla, i + 1, ok,
                  vistos \cup {<<tabla[i].CABLE_ORIG,
                                 tabla[i].TIPO_UBICACION>>})
         ELSE SinDuplicados(tabla, i + 1, ok, vistos)

\* drop_duplicates(subset=['CABLE_ORIG']) over the whole table
RECURSIVE SinDuplicadosNombre(_, _, _)
SinDuplicadosNombre(tabla, i, vistos) ==
    IF i > Len(tabla) THEN <<>>
    ELSE IF tabla[i].CABLE_ORIG \notin vistos
         THEN <<tabla[i].CABLE_ORIG>> \o
              SinDuplicadosNombre(tabla, i + 1,
                                  vistos \cup {tabla[i].CABLE_ORIG})
         ELSE SinDuplicadosNombre(tabla, i + 1, vistos)

\* the loops of 588-598, 603-612 and 621-630: the first name of the list
\* whose lookup gives 1 (and, with largo, of three characters or more), 0
\* when the loop ends without a break
PrimeroHallado(lista, cat, largo) ==
    LET S == {j \in 1..Len(lista) :
                 /\ fload_library(lista[j], cat) = 1
                 /\ largo => LargoNombre(lista[j]) >= 3}
    IN IF S = {} THEN 0
       ELSE lista[CHOOSE j \in S : \A k \in S : j <= k]

\* Found_cable_2 after the loop of 588-598: the value of the last lookup
UltimoFound2(lista, cat) ==
    LET S == {j \in 1..Len(lista) : fload_library(lista[j], cat) = 1}
    IN IF S = {} THEN fload_library(lista[Len(lista)], cat)
       ELSE 1

\* lines 585-637 for row i: <<the CABLE written, the level reached>>
BuscaCable(tabla, i, cat) ==
    LET row == tabla[i]
        mismoTipo(f) == f.TIPO_UBICACION = row.TIPO_UBICACION
        prov == SinDuplicados(tabla, 1, mismoTipo, {})
        prov2 == SinDuplicadosNombre(tabla, 1, {})
    IN IF Len(prov) > 0
       THEN IF PrimeroHallado(prov, cat, FALSE) # 0
            THEN <<PrimeroHallado(prov, cat, FALSE), 1>>
            ELSE IF UltimoFound2(prov, cat) = 0
                    /\ PrimeroHallado(prov2, cat, TRUE) # 0
                 THEN <<PrimeroHallado(prov2, cat, TRUE), 2>>
                 ELSE <<row.CABLE, 0>>
       ELSE IF Len(prov2) > 0
            THEN IF PrimeroHallado(prov2, cat, TRUE) # 0
                 THEN <<PrimeroHallado(prov2, cat, TRUE), 2>>
                 ELSE <<row.CABLE, 0>>
            ELSE <<row.CABLE, 2>>

\* one pass of the loop over the spans, lines 581-643
CompruebaCable ==
    /\ kpc = "cables"
    /\ fila_k < Len(df_cables)
    /\ LET i == fila_k + 1
           nombre == df_cables[i].CABLE_ORIG
           found == fload_library(nombre, catalogo)
           busca == found = 0 \/ LargoNombre(nombre) <= 3
           r == BuscaCable(df_cables, i, catalogo)
       IN /\ fila_k' = i
          /\ Cable' = CargaRegistro(ConductorPorDefecto, nombre, catalogo)
          /\ Found_cable' = found
          /\ buscados' = IF busca THEN buscados \cup {i} ELSE buscados
          /\ df_cables' = IF busca
                          THEN [df_cables EXCEPT ![i].CABLE = r[1]]
                          ELSE df_cables
          /\ graph_data_error' = IF busca /\ graph_data_error <= r[2]
                                 THEN r[2] ELSE graph_data_error
    /\ UNCHANGED <<kpc, catalogo>>
    /\ UNCHANGED varsFueraCable
    /\ UNCHANGED varsDriver

\* the loop over the spans ends
FinCables ==
    /\ kpc = "cables"
    /\ fila_k = Len(df_cables)
    /\ kpc' = "fin"
    /\ UNCHANGED <<catalogo, df_cables, fila_k, Cable, Found_cable, buscados,
                   graph_data_error>>
    /\ UNCHANGED varsFueraCable
    /\ UNCHANGED varsDriver

FilasCable ==
    [CABLE_ORIG : Nombres, TIPO_UBICACION : 0..1, CABLE : Nombres]

InitCable ==
    /\ kpc = "cables"
    /\ catalogo \in SUBSET Nombres
    /\ \E m \in 1..MaxVanos :
           df_cables \in {t \in [1..m -> FilasCable] :
                             \A i \in 1..m : t[i].CABLE = t[i].CABLE_ORIG}
    /\ fila_k = 0
    /\ Cable = ConductorPorDefecto
    /\ Found_cable = Ninguno
    /\ buscados = {}
    /\ graph_data_error = 0
    /\ MainEnReposo
    /\ GrafoEnReposo
    /\ CargaEnReposo
    /\ HorasEnReposo
    /\ DistEnReposo
    /\ CupsEnReposo
    /\ DriverEnReposo

NextCable == CompruebaCable \/ FinCables

SpecCable == InitCable /\ [][NextCable]_vars

\* C22: the lookup tells found from not found (1 for a cable of the
\* catalog, 0 otherwise), a cable that is not found leaves the default
\* record, and the search for another cable is entered exactly for the
\* spans whose cable is not in the catalog
C22_BusquedaSiNoEstaEnCatalogo ==
    fila_k > 0 =>
        /\ Found_cable = (IF df_cables[fila_k].CABLE_ORIG \in catalogo
                          THEN 1 ELSE 0)
        /\ df_cables[fila_k].CABLE_ORIG \notin catalogo =>
               /\ Cable.Rdc = ConductorPorDefecto.Rdc
               /\ Cable.S = ConductorPorDefecto.S
        /\ \A i \in 1..fila_k :
               i \in buscados <=> df_cables[i].CABLE_ORIG \notin catalogo

C26_ParalelosUnaVez ==
    lpc = "fin" =>
        /\ \A n \in ElementosDe(subidos), f \in Fases :
               Abs(P_Linea[n][f]) =
                   (LongTramo(n) * P_0[n][f] * P_0[n][f])
                       \div (2 * arbol.par[n] * arbol.par[n])
        /\ \A u \in arbol.nodos, f \in Fases :
               P_0[u][f] =
                   inyectado[u][f]
                   + SumaSobre(Hijos(arbol, u) \cap ElementosDe(subidos),
                               [m \in NodosC |->
                                   P_0[m][f]
                                   + arbol.par[m] * Abs(P_Linea[m][f])])
        /\ \A n \in ElementosDe(subidos) :
               Hijos(arbol, n) = {} =>
                   Enlaces_iter[n] = EnlacesOrig(arbol, n) - 1

\* a resolution in which a node under two parallel spans passed upward a
\* power that gives a loss in each of them
C26_Testigo ==
    /\ lpc = "fin"
    /\ \E n \in ElementosDe(subidos) :
           /\ arbol.par[n] = 2
           /\ \E f \in Fases : Abs(P_Linea[n][f]) > 0

ArbolTrafos(nT, k, pf, conexion) ==
    [nodos |-> {CT}
                 \cup {NodoTrafo(t) : t \in 1..nT}
                 \cup {NodoTrafo400(t) : t \in 1..nT}
                 \cup {NodoAlimentador(t) : t \in 1..nT}
                 \cup {n \in Fisicos : n <= CT_LBT + k},
     padre |-> [n \in NodosC |->
                  IF n \in Fisicos THEN pf[n]
                  ELSE IF \E t \in 1..MaxTrafosArbol : n = NodoAlimentador(t)
                  THEN NodoTrafo400(CHOOSE t \in 1..MaxTrafosArbol :
                                        n = NodoAlimentador(t))
                  ELSE IF \E t \in 1..MaxTrafosArbol : n = NodoTrafo400(t)
                  THEN NodoTrafo(CHOOSE t \in 1..MaxTrafosArbol :
                                     n = NodoTrafo400(t))
                  ELSE CT],
     par |-> [n \in NodosC |-> 1],
     cups |-> conexion]

InitTrafos ==
    /\ lpc = "add_cch"
    /\ \E nT \in 1..MaxTrafosArbol, k \in 1..MaxNodos :
       \E pf \in [Fisicos -> {NodoAlimentador(t) : t \in 1..nT}
                                 \cup Fisicos] :
           /\ \A n \in Fisicos :
                  IF n <= CT_LBT + k
                  THEN pf[n] \in Fisicos => pf[n] < n
                  ELSE pf[n] = CT_LBT
           /\ \A t \in 1..nT :
                  \E n \in Fisicos : n <= CT_LBT + k
                                        /\ pf[n] = NodoAlimentador(t)
           /\ \E conexion \in [Cups -> {n \in Fisicos : n <= CT_LBT + k}] :
                  arbol = ArbolTrafos(nT, k, pf, conexion)
    /\ df_AE_fecha \in [Cups -> ValoresAE]
    /\ df_AS_fecha = [c \in Cups |-> 0]
    /\ filas_AE = [c \in Cups |-> 1]
    /\ filas_AS = [c \in Cups |-> 1]
    /\ P_0 = [n \in NodosC |-> Ceros]
    /\ P_cups = [c \in Cups |-> Ceros]
    /\ P_Linea = [n \in NodosC |-> Ceros]
    /\ Enlaces_iter = [n \in NodosC |-> EnlacesOrig(arbol, n)]
    /\ nodos_utilizados = {}
    /\ salir_bucle = 0
    /\ CCH_Data_Error = 0
    /\ corrida = 1
    /\ inyectado = [n \in NodosC |-> Ceros]
    /\ primera = <<>>
    /\ subidos = <<>>
    /\ graph_data_error = 0
    /\ MainEnReposo
    /\ GrafoEnReposo
    /\ HorasEnReposo
    /\ DistEnReposo
    /\ CupsEnReposo
    /\ CableEnReposo
    /\ DriverEnReposo

SpecTrafos == InitTrafos /\ [][NextLoad]_vars

\* C27: on a connected tree in which every virtual node has a span below
\* it, with the node lists main computes, resuelve_grafo never gives the
\* convergence error 4, however many transformers hang from the substation
C27_NuncaError4 == CCH_Data_Error # 4

\* ======================================================================
\* graph_losses_calculation.py: the loop over the file of substations
\* (lines 297-326)
\* ======================================================================
MaxLineas == 3
MaxVueltas == 6

\* what a line of the file may hold: the text 'FIN', a number, another
\* text, or nothing
Lineas == {"FIN", "numero", "texto", "vacia"}

\* int(...) of line 308 raises for a text that is not a number
EsEntero(l) == l = "numero"

\* reader.readline().splitlines()[0] raises at the end of the file, where
\* readline gives the empty text and splitlines the empty list
FinDeArchivo(archivo, leidas) == leidas >= Len(archivo)

\* one pass of "while True" (lines 299-326); run says whether Solve_Graph
\* raises.  The passes are counted up to MaxVueltas.
Vuelta(run) ==
    /\ rpc = "lee"
    /\ vueltas < MaxVueltas
    /\ vueltas' = vueltas + 1
    /\ IF FinDeArchivo(archivo_CTs, linea)
       \* line 301 raises, "except: pass" takes it and the loop goes on
       THEN UNCHANGED <<rpc, linea, ejecutados>>
       ELSE IF archivo_CTs[linea + 1] = "FIN"
       \* lines 304-305
       THEN /\ rpc' = "fin"
            /\ linea' = linea + 1
            /\ UNCHANGED ejecutados
       ELSE IF FinDeArchivo(archivo_CTs, linea + 1)
       \* line 308 raises at the end of the file
       THEN /\ linea' = linea + 1
            /\ UNCHANGED <<rpc, ejecutados>>
       \* line 308 raises or gives the id; Solve_Graph runs and may raise
       ELSE /\ linea' = linea + 2
            /\ run \in (IF EsEntero(archivo_CTs[linea + 2])
                        THEN {"bien", "excepcion"} ELSE {"no"})
            /\ ejecutados' = IF run = "no" THEN ejecutados
                             ELSE ejecutados + 1
            /\ UNCHANGED rpc
    /\ UNCHANGED archivo_CTs
    /\ UNCHANGED varsFueraDriver

\* the program ends after the break of line 305
Sale ==
    /\ rpc = "fin"
    /\ rpc' = "acabado"
    /\ UNCHANGED <<archivo_CTs, linea, ejecutados, vueltas>>
    /\ UNCHANGED varsFueraDriver

InitDriver ==
    /\ rpc = "lee"
    /\ \E m \in 0..MaxLineas : archivo_CTs \in [1..m -> Lineas]
    /\ linea = 0
    /\ ejecutados = 0
    /\ vueltas = 0
    /\ graph_data_error = 0
    /\ MainEnReposo
    /\ GrafoEnReposo
    /\ CargaEnReposo
    /\ HorasEnReposo
    /\ DistEnReposo
    /\ CupsEnReposo
    /\ CableEnReposo

NextDriver ==
    \/ \E run \in {"bien", "excepcion", "no"} : Vuelta(run)
    \/ Sale

\* the interpreter goes on running the loop while a pass can be made
SpecDriver ==
    InitDriver /\ [][NextDriver]_vars /\ WF_vars(NextDriver)

\* C30: the loop over the file of substations ends, whether the file ends
\* with the line 'FIN' or just ends, and whether or not a run or the
\* reading of an id raises
C30_ElBucleTermina == <>(rpc = "acabado")

\* a step of method 1 that found a cycle of three or more nodes
DeteccionMetodo1 ==
    gpc = "lazos" /\ gpc' = "metodo2" /\ G_enlaces' # G_enlaces

\* the links of E0 that are no longer in E1
VinculosQuitados(E0, E1) ==
    {e \in Pares : e[1] < e[2] /\ E0[e[1]][e[2]] > 0 /\ E1[e[1]][e[2]] = 0}

\* C25 as stated: every detection of the fast check removes exactly one
\* edge, also when the two ends are joined by parallel spans, and leaves
\* in the counters of the two ends their new numbers of neighbours
C25_UnEnlacePorDeteccion ==
    [][DeteccionMetodo1 =>
          /\ TotalEnlaces(G_enlaces') = TotalEnlaces(G_enlaces) - 1
          /\ \A e \in VinculosQuitados(G_enlaces, G_enlaces') :
                 \A n \in {e[1], e[2]} :
                     Enlaces_orig'[n] =
                         Cardinality(Vecinos(G_enlaces', n) \ {n})]_vars

\* C25 amended: every detection of the fast check removes exactly one link
\* of a cycle of three or more nodes, that is every parallel span between
\* its two ends and no other edge, and leaves in the counters of the two
\* ends their new numbers of neighbours
C25_UnVinculoPorDeteccion ==
    [][DeteccionMetodo1 =>
          /\ NumVinculos(G_enlaces') = NumVinculos(G_enlaces) - 1
          /\ \E e \in VinculosQuitados(G_enlaces, G_enlaces') :
                 /\ G_enlaces' = PonEnlaces(G_enlaces, e[1], e[2], 0)
                 /\ \E b \in FindAllCycles(G_enlaces) :
                        {e, <<e[2], e[1]>>} \cap EnlacesDeBucle(b) # {}
                 /\ \A n \in {e[1], e[2]} :
                        Enlaces_orig'[n] =
                            Cardinality(Vecinos(G_enlaces', n) \ {n})]_vars

\* the first pass of the loop has removed the two parallel spans of a link
\* that method 2 would not have chosen
C25_Testigo ==
    /\ gpc = "metodo2"
    /\ iter_lazos = 1
    /\ \E e \in VinculosQuitados(G_antes, G_enlaces) :
           /\ G_enlaces = PonEnlaces(G_antes, e[1], e[2], 0)
           /\ G_antes[e[1]][e[2]] = 2
           /\ \A b \in PrimerosBucles(G_antes) :
                  {b[Len(b) - 1], b[Len(b)]} # {e[1], e[2]}

\* the number of links between the substation and node n
RECURSIVE Saltos(_, _, _, _, _)
Saltos(E, n, vistos, frontera, d) ==
    IF n \in frontera THEN d
    ELSE IF frontera = {} THEN Cardinality(NodosG)
    ELSE LET nuevos == (UNION {Vecinos(E, x) : x \in frontera}) \ vistos
         IN Saltos(E, n, vistos \cup nuevos, nuevos, d + 1)

\* how far a link is from the substation: the links to its two ends
LejaniaEnlace(E, e) ==
    Saltos(E, e[1], {CT}, {CT}, 0) + Saltos(E, e[2], {CT}, {CT}, 0)

\* C24: every step of the exhaustive check takes one of the cycles with
\* the fewest edges, removes from it the link that is farthest from the
\* substation and nothing else, and leaves one link less in the graph
C24_QuitaElMasLejano ==
    [][(gpc = "metodo2" /\ gpc' = "metodo2") =>
          /\ NumVinculos(G_enlaces') = NumVinculos(G_enlaces) - 1
          /\ \E b \in PrimerosBucles(G_enlaces) :
             \E e \in EnlacesDeBucle(b) :
                 /\ G_enlaces' = PonEnlaces(G_enlaces, e[1], e[2], 0)
                 /\ \A e2 \in EnlacesDeBucle(b) :
                        LejaniaEnlace(G_enlaces, e)
                            >= LejaniaEnlace(G_enlaces, e2)]_vars

(***************************************************************************)
(* main: every hour of every day of the range (lines 2897-2911, 2987,      *)
(* 3302-3310 and 3453).                                                    *)
(***************************************************************************)
\* how many times resuelve_grafo was called for hour h of day d
VecesResuelta(d, h) ==
    Cardinality({i \in DOMAIN llamadas : llamadas[i] = <<d, h>>})

\* C29: for a graph of data-quality level below 3 and a range whose days
\* all have load curves, when main has finished the load propagation has
\* run exactly once for every hour of every day from fecha_ini to
\* fecha_fin, both included.
C29_CadaHoraUnaVez ==
    (hpc = "fin" /\ graph_data_error < 3 /\ dias_sin_cch = {}) =>
        \A d \in 1..MaxDias : \A h \in 1..MaxHoras :
            VecesResuelta(d, h) = 1

====
